---------------------------- MODULE Spec2Model ----------------------------
(***************************************************************************)
(* Model of multi-poetry-runner: the dependency-graph engine               *)
(* (utils/config.py), the semantic-version model and version coordinator   *)
(* (core/version_manager.py) and the release orchestrator                  *)
(* (core/release.py).                                                      *)
(*                                                                         *)
(* Python strings are modelled as sequences of one-character strings, so   *)
(* that parsing, formatting, splitting and prefix handling are computed    *)
(* the way the code computes them.                                         *)
(***************************************************************************)
EXTENDS Integers, Sequences, FiniteSets, TLC

VARIABLES
    repositories,     \* WorkspaceConfig.repositories: the configured repositories, in order
    path_exists,      \* repo name -> whether repo.path exists on disk
    pyproject,        \* repo name -> the repository's pyproject.toml
    version_history,  \* the ledger .version-history.json
    git,              \* repo name -> the repository's commits, HEAD and tags
    backup_dirs,      \* number of backups/release_<timestamp> folders written
    backups,          \* ReleaseCoordinator.backups
    release_results,  \* ReleaseCoordinator.release_results
    results_log,      \* the assignments to release_results, in the order they were made
    cmds,             \* external commands (poetry, git, pytest) issued by the running operation
    environment,      \* how the external commands of this run turn out
    call,             \* the operation invoked, with its arguments
    ret,              \* what the operation returned or raised
    executor          \* the thread pool and loops of a release that is under way

vars == <<repositories, path_exists, pyproject, git, version_history, backup_dirs, backups,
          release_results, results_log, cmds, environment, call, ret, executor>>

\* everything an operation can change on disk or in the coordinator
world == <<pyproject, git, version_history, backup_dirs, backups, release_results,
           results_log, cmds>>

-----------------------------------------------------------------------------
(* Bounds of the model *)

\* longest declared dependency list of a repository
MaxDeps == 2
\* largest major/minor/patch component of the enumerated version strings
MaxNum == 1
\* largest alpha counter of the enumerated version strings
MaxAlpha == 2

-----------------------------------------------------------------------------
(* Python string primitives *)

\* Python's None, and the values Python treats as false in `if not x`
None == <<"<None>">>
Falsy(s) == s = None \/ s = <<>>

DigitChars == <<"0", "1", "2", "3", "4", "5", "6", "7", "8", "9">>
IsDigit(c) == \E i \in 1..10 : DigitChars[i] = c
DigitVal(c) == (CHOOSE i \in 1..10 : DigitChars[i] = c) - 1

\* \d+
IsDigits(s) == Len(s) > 0 /\ \A i \in 1..Len(s) : IsDigit(s[i])

\* int(s) for a string of digits
RECURSIVE StrToInt(_)
StrToInt(s) ==
    IF Len(s) = 0 THEN 0
    ELSE 10 * StrToInt(SubSeq(s, 1, Len(s) - 1)) + DigitVal(s[Len(s)])

\* str(n) for n >= 0
RECURSIVE IntToStr(_)
IntToStr(n) ==
    IF n < 10 THEN <<DigitChars[n + 1]>>
    ELSE IntToStr(n \div 10) \o <<DigitChars[(n % 10) + 1]>>

\* s.find(c) + 1: position of the first c in s, 0 when absent
IndexOf(s, c) ==
    IF \E i \in 1..Len(s) : s[i] = c
    THEN CHOOSE i \in 1..Len(s) : s[i] = c /\ \A j \in 1..(i - 1) : s[j] # c
    ELSE 0

\* s.startswith(p)
StartsWith(s, p) == Len(s) >= Len(p) /\ SubSeq(s, 1, Len(p)) = p

\* s.split(c) for a one-character separator
RECURSIVE Split(_, _)
Split(s, c) ==
    LET i == IndexOf(s, c)
    IN  IF i = 0 THEN <<s>>
        ELSE <<SubSeq(s, 1, i - 1)>> \o Split(SubSeq(s, i + 1, Len(s)), c)

\* s.replace(a, b) for one-character a and b
Replace(s, a, b) == [i \in 1..Len(s) |-> IF s[i] = a THEN b ELSE s[i]]

\* s.lstrip(chars)
RECURSIVE LStrip(_, _)
LStrip(s, chars) ==
    IF Len(s) > 0 /\ s[1] \in chars THEN LStrip(Tail(s), chars) ELSE s

\* the first n elements of a sequence (s[:n])
Take(s, n) == SubSeq(s, 1, IF n < Len(s) THEN n ELSE Len(s))

Range(s) == {s[i] : i \in 1..Len(s)}

\* a value handed to the steps that follow it
With(v, F(_)) == F(v)

\* sequences over S of length at most n without repeated elements
DistinctSeqs(S, n) ==
    UNION {{s \in [1..k -> S] : \A i, j \in 1..k : i # j => s[i] # s[j]} : k \in 0..n}

-----------------------------------------------------------------------------
(* Configuration: utils/config.py *)

RepoA == <<"a">>
RepoB == <<"b">>
RepoC == <<"c">>
\* a name that occurs in a dependency list but is not a configured repository
Unconfigured == <<"x">>

RepoNames == <<RepoA, RepoB, RepoC>>

\* RepositoryConfig (the fields the core reads)
RepositoryConfig(name, package_name, dependencies) ==
    [name |-> name, package_name |-> package_name, dependencies |-> dependencies]

ConfiguredNames(repos) == {repos[i].name : i \in 1..Len(repos)}

\* ConfigManager.get_repository; None when the name is not configured
HasRepository(repos, name) == \E i \in 1..Len(repos) : repos[i].name = name
get_repository(repos, name) ==
    repos[CHOOSE i \in 1..Len(repos) :
              repos[i].name = name /\ \A j \in 1..(i - 1) : repos[j].name # name]

\* graph[repo.name] = repo.dependencies
DependencyGraph(repos) ==
    [n \in ConfiguredNames(repos) |-> get_repository(repos, n).dependencies]

\* graph.get(node, [])
GraphGet(graph, node) == IF node \in DOMAIN graph THEN graph[node] ELSE <<>>

\* ConfigManager.get_dependency_order.visit: depth-first post-order with the
\* marks visited (done) and temp_visited (in progress).  A raised ValueError is
\* carried in st.raised with the node it names; st keeps the marks as they
\* were when it was raised.
RECURSIVE visit(_, _, _), visit_each(_, _, _, _)

\* visit with the node appended on entry, before its dependencies are visited
visit_preorder(graph, node, st) ==
    IF st.raised THEN st
    ELSE IF node \in st.temp_visited
    THEN [st EXCEPT !.raised = TRUE, !.involving = node]
    ELSE IF node \in st.visited THEN st
    ELSE LET entered == [st EXCEPT !.temp_visited = @ \cup {node},
                                   !.result = Append(@, node)]
             after == visit_each(graph, GraphGet(graph, node), 1, entered)
         IN  IF after.raised THEN after
             ELSE [after EXCEPT !.temp_visited = @ \ {node},
                                !.visited = @ \cup {node}]

\* visit with a single mark: the node is marked done on entry and there is no
\* in-progress mark to re-enter
visit_single_mark(graph, node, st) ==
    IF node \in st.visited THEN st
    ELSE LET entered == [st EXCEPT !.visited = @ \cup {node}]
             after == visit_each(graph, GraphGet(graph, node), 1, entered)
         IN  [after EXCEPT !.result = Append(@, node)]

visit(graph, node, st) ==
    IF st.raised THEN st
    ELSE IF node \in st.temp_visited
    THEN [st EXCEPT !.raised = TRUE, !.involving = node]
    ELSE IF node \in st.visited THEN st
    ELSE LET entered == [st EXCEPT !.temp_visited = @ \cup {node}]
             after == visit_each(graph, GraphGet(graph, node), 1, entered)
         IN  IF after.raised THEN after
             ELSE [after EXCEPT !.temp_visited = @ \ {node},
                                !.visited = @ \cup {node},
                                !.result = Append(@, node)]
visit_each(graph, nodes, i, st) ==
    IF i > Len(nodes) \/ st.raised THEN st
    ELSE visit_each(graph, nodes, i + 1, visit(graph, nodes[i], st))

\* ConfigManager.get_dependency_order: [raised, involving, result, ...]
get_dependency_order(repos) ==
    visit_each(DependencyGraph(repos),
               [i \in 1..Len(repos) |-> repos[i].name], 1,
               [visited |-> {}, temp_visited |-> {}, result |-> <<>>,
                raised |-> FALSE, involving |-> None])

-----------------------------------------------------------------------------
(* SemVer model: core/version_manager.py, core/release.py *)

Dot == "."
AlphaMark == <<"-", "a", "l", "p", "h", "a", ".">>

\* f"{major}.{minor}.{patch}"
FormatRelease(major, minor, patch) ==
    IntToStr(major) \o <<Dot>> \o IntToStr(minor) \o <<Dot>> \o IntToStr(patch)

\* f"{major}.{minor}.{patch}-alpha.{alpha}"
FormatAlpha(major, minor, patch, alpha) ==
    FormatRelease(major, minor, patch) \o AlphaMark \o IntToStr(alpha)

\* re.match(r"^(\d+)\.(\d+)\.(\d+)(?:-alpha\.(\d+))?(?:\+.*)?$", s) and the
\* int() conversions that follow it.  No digit, "." or "-alpha." holds a "+",
\* so the build part starts at the first "+"; no \d+\.\d+\.\d+ holds a "-", so
\* the alpha part starts at the first "-".
ParseVersion(s) ==
    With(IndexOf(s, "+"), LAMBDA plus :
    With(IF plus = 0 THEN s ELSE SubSeq(s, 1, plus - 1), LAMBDA core :
    With(IndexOf(core, "-"), LAMBDA dash :
    With(Split(IF dash = 0 THEN core ELSE SubSeq(core, 1, dash - 1), Dot), LAMBDA parts :
    With(IF dash = 0 THEN <<>> ELSE SubSeq(core, dash, Len(core)), LAMBDA pre :
    With(SubSeq(pre, Len(AlphaMark) + 1, Len(pre)), LAMBDA count :
        IF /\ s # None
           /\ Len(parts) = 3
           /\ \A i \in 1..3 : IsDigits(parts[i])
           /\ dash # 0 => (StartsWith(pre, AlphaMark) /\ IsDigits(count))
        THEN [matched |-> TRUE,
              major |-> StrToInt(parts[1]),
              minor |-> StrToInt(parts[2]),
              patch |-> StrToInt(parts[3]),
              is_alpha |-> dash # 0,
              alpha |-> IF dash # 0 THEN StrToInt(count) ELSE 0]
        ELSE [matched |-> FALSE, major |-> 0, minor |-> 0, patch |-> 0,
              is_alpha |-> FALSE, alpha |-> 0]))))))

BumpTypes == {"patch", "minor", "major"}

Returned(v) == [kind |-> "return", value |-> v]
Raised(e) == [kind |-> e, value |-> None]

\* _calculate_new_version that ignores the bump type when leaving alpha
calculate_new_version_strip_only(current_version, bump_type, alpha) ==
    With(ParseVersion(current_version), LAMBDA v :
        IF ~v.matched THEN Raised("ValueError")
        ELSE IF alpha
        THEN IF v.is_alpha
             THEN Returned(FormatAlpha(v.major, v.minor, v.patch, v.alpha + 1))
             ELSE IF bump_type = "patch"
             THEN Returned(FormatAlpha(v.major, v.minor, v.patch + 1, 1))
             ELSE IF bump_type = "minor"
             THEN Returned(FormatAlpha(v.major, v.minor + 1, 0, 1))
             ELSE IF bump_type = "major"
             THEN Returned(FormatAlpha(v.major + 1, 0, 0, 1))
             ELSE Returned(FormatAlpha(v.major, v.minor, v.patch, 1))
        ELSE IF v.is_alpha
        THEN Returned(FormatRelease(v.major, v.minor, v.patch))
        ELSE IF bump_type = "patch"
        THEN Returned(FormatRelease(v.major, v.minor, v.patch + 1))
        ELSE IF bump_type = "minor"
        THEN Returned(FormatRelease(v.major, v.minor + 1, 0))
        ELSE IF bump_type = "major"
        THEN Returned(FormatRelease(v.major + 1, 0, 0))
        ELSE Raised("UnboundLocalError"))

\* _calculate_new_version that bumps again when the version is already alpha
calculate_new_version_rebump(current_version, bump_type, alpha) ==
    With(ParseVersion(current_version), LAMBDA v :
        IF ~v.matched THEN Raised("ValueError")
        ELSE IF alpha
        THEN IF bump_type = "patch"
             THEN Returned(FormatAlpha(v.major, v.minor, v.patch + 1, 1))
             ELSE IF bump_type = "minor"
             THEN Returned(FormatAlpha(v.major, v.minor + 1, 0, 1))
             ELSE IF bump_type = "major"
             THEN Returned(FormatAlpha(v.major + 1, 0, 0, 1))
             ELSE Returned(FormatAlpha(v.major, v.minor, v.patch, 1))
        ELSE IF v.is_alpha
        THEN IF bump_type = "patch"
             THEN Returned(FormatRelease(v.major, v.minor, v.patch))
             ELSE IF bump_type = "minor"
             THEN Returned(FormatRelease(v.major, v.minor, 0))
             ELSE IF bump_type = "major"
             THEN Returned(FormatRelease(v.major, 0, 0))
             ELSE Raised("UnboundLocalError")
        ELSE IF bump_type = "patch"
        THEN Returned(FormatRelease(v.major, v.minor, v.patch + 1))
        ELSE IF bump_type = "minor"
        THEN Returned(FormatRelease(v.major, v.minor + 1, 0))
        ELSE IF bump_type = "major"
        THEN Returned(FormatRelease(v.major + 1, 0, 0))
        ELSE Raised("UnboundLocalError"))

\* _calculate_new_version that increments an alpha version on release as it
\* increments any other version
calculate_new_version_counting_alpha(current_version, bump_type, alpha) ==
    With(ParseVersion(current_version), LAMBDA v :
        IF ~v.matched THEN Raised("ValueError")
        ELSE IF alpha
        THEN IF v.is_alpha
             THEN Returned(FormatAlpha(v.major, v.minor, v.patch, v.alpha + 1))
             ELSE IF bump_type = "patch"
             THEN Returned(FormatAlpha(v.major, v.minor, v.patch + 1, 1))
             ELSE IF bump_type = "minor"
             THEN Returned(FormatAlpha(v.major, v.minor + 1, 0, 1))
             ELSE IF bump_type = "major"
             THEN Returned(FormatAlpha(v.major + 1, 0, 0, 1))
             ELSE Returned(FormatAlpha(v.major, v.minor, v.patch, 1))
        ELSE IF bump_type = "patch"
        THEN Returned(FormatRelease(v.major, v.minor, v.patch + 1))
        ELSE IF bump_type = "minor"
        THEN Returned(FormatRelease(v.major, v.minor + 1, 0))
        ELSE IF bump_type = "major"
        THEN Returned(FormatRelease(v.major + 1, 0, 0))
        ELSE Raised("UnboundLocalError"))

\* VersionManager._calculate_new_version.  An unparseable version raises
\* ValueError; with alpha false a bump type outside patch/minor/major leaves
\* new_major unassigned, which raises UnboundLocalError at the return.
calculate_new_version(current_version, bump_type, alpha) ==
    With(ParseVersion(current_version), LAMBDA v :
        IF ~v.matched THEN Raised("ValueError")
        ELSE IF alpha
        THEN IF v.is_alpha
             THEN Returned(FormatAlpha(v.major, v.minor, v.patch, v.alpha + 1))
             ELSE IF bump_type = "patch"
             THEN Returned(FormatAlpha(v.major, v.minor, v.patch + 1, 1))
             ELSE IF bump_type = "minor"
             THEN Returned(FormatAlpha(v.major, v.minor + 1, 0, 1))
             ELSE IF bump_type = "major"
             THEN Returned(FormatAlpha(v.major + 1, 0, 0, 1))
             ELSE Returned(FormatAlpha(v.major, v.minor, v.patch, 1))
        ELSE IF v.is_alpha
        THEN IF bump_type = "patch"
             THEN Returned(FormatRelease(v.major, v.minor, v.patch))
             ELSE IF bump_type = "minor"
             THEN Returned(FormatRelease(v.major, v.minor, 0))
             ELSE IF bump_type = "major"
             THEN Returned(FormatRelease(v.major, 0, 0))
             ELSE Raised("UnboundLocalError")
        ELSE IF bump_type = "patch"
        THEN Returned(FormatRelease(v.major, v.minor, v.patch + 1))
        ELSE IF bump_type = "minor"
        THEN Returned(FormatRelease(v.major, v.minor + 1, 0))
        ELSE IF bump_type = "major"
        THEN Returned(FormatRelease(v.major + 1, 0, 0))
        ELSE Raised("UnboundLocalError"))

\* ReleaseCoordinator._calculate_dependent_version_bump
calculate_dependent_version_bump(current_version) ==
    With(ParseVersion(current_version), LAMBDA v :
        IF ~v.matched THEN current_version \o <<"-", "a", "l", "p", "h", "a", ".", "1">>
        ELSE IF v.is_alpha THEN FormatAlpha(v.major, v.minor, v.patch, v.alpha + 1)
        ELSE FormatAlpha(v.major, v.minor, v.patch + 1, 1))

\* VersionManager._is_version_compatible with real exact-match semantics
vm_is_version_compatible_exact(requirement, version) ==
    IF StartsWith(requirement, <<"^">>)
    THEN Split(Tail(requirement), Dot)[1] = Split(version, Dot)[1]
    ELSE IF StartsWith(requirement, <<"~">>)
    THEN Take(Split(Tail(requirement), Dot), 2) = Take(Split(version, Dot), 2)
    ELSE requirement = version

\* VersionManager._is_version_compatible
vm_is_version_compatible(requirement, version) ==
    IF StartsWith(requirement, <<"^">>)
    THEN Split(Tail(requirement), Dot)[1] = Split(version, Dot)[1]
    ELSE IF StartsWith(requirement, <<"~">>)
    THEN Take(Split(Tail(requirement), Dot), 2) = Take(Split(version, Dot), 2)
    ELSE IF requirement = version THEN TRUE
    ELSE TRUE

\* DependencyManager._is_version_compatible
dm_is_version_compatible(requirement, version) ==
    LET req_parts == Split(Tail(requirement), Dot)
        ver_parts == Split(version, Dot)
    IN  IF StartsWith(requirement, <<"^">>)
        THEN IF Len(req_parts) > 0 /\ Len(ver_parts) > 0
             THEN req_parts[1] = ver_parts[1]
             ELSE TRUE
        ELSE IF StartsWith(requirement, <<"~">>)
        THEN IF Len(req_parts) >= 2 /\ Len(ver_parts) >= 2
             THEN req_parts[1] = ver_parts[1] /\ req_parts[2] = ver_parts[2]
             ELSE TRUE
        ELSE IF requirement = version THEN TRUE
        ELSE TRUE

-----------------------------------------------------------------------------
(* Manifests and repositories on disk *)

\* a requirement in [tool.poetry.dependencies]: a plain string, or a table
\* with an optional version key and an optional path key
StrRequirement(v) == [kind |-> "str", version |-> v, path |-> FALSE]
DictRequirement(v, path) == [kind |-> "dict", version |-> v, path |-> path]

\* pyproject.toml: absent, or its [tool.poetry] version (None when the key is
\* missing) and dependencies (package key -> requirement)
NoFile == [exists |-> FALSE, version |-> None, dependencies |-> <<>>]
Manifest(version, dependencies) ==
    [exists |-> TRUE, version |-> version, dependencies |-> dependencies]

\* a commit: the manifest it holds and the commit it was made on (0 for none)
Commit(manifest, parent) == [manifest |-> manifest, parent |-> parent]

\* a repository without commits
NoGit == [commits |-> <<>>, head |-> 0, tags |-> {}]

\* an external command as the operation issued it
Cmd(name, repo, arg) == [cmd |-> name, repo |-> repo, arg |-> arg]

\* _get_current_version (version manager and release coordinator alike)
get_current_version(files, name) ==
    IF files[name].exists THEN files[name].version ELSE None

-----------------------------------------------------------------------------
(* Version coordinator: core/version_manager.py *)

\* the last 100 entries of the ledger are kept
HistoryLimit == 100

\* the state an operation works on, threaded through its steps
World ==
    [pyproject |-> pyproject, git |-> git, version_history |-> version_history,
     backup_dirs |-> backup_dirs, backups |-> backups,
     release_results |-> release_results, results_log |-> results_log, cmds |-> cmds]

\* subprocess.run of an external command
Run(w, c) == [w EXCEPT !.cmds = Append(@, c)]

\* the hyphen/underscore variations tried for a package name
possible_names(package_name) ==
    <<package_name, Replace(package_name, "-", "_"), Replace(package_name, "_", "-")>>

\* the first variation that is a key of the dependency table, None when none is
find_dependency(dependencies, package_name) ==
    LET names == possible_names(package_name)
    IN  IF \E i \in 1..3 : names[i] \in DOMAIN dependencies
        THEN names[CHOOSE i \in 1..3 :
                       /\ names[i] \in DOMAIN dependencies
                       /\ \A j \in 1..(i - 1) : names[j] \notin DOMAIN dependencies]
        ELSE None

\* _update_repository_version in which a failing `poetry version` has
\* written the version before it fails
vm_update_repository_version_torn(w, env, name, version) ==
    LET issued == Run(w, Cmd("poetry version", name, version))
    IN  IF ~w.pyproject[name].exists THEN [w |-> issued, raised |-> TRUE]
        ELSE IF name \in env.version_fails
        THEN [w |-> [issued EXCEPT !.pyproject[name].version = version], raised |-> TRUE]
        ELSE [w |-> Run([issued EXCEPT !.pyproject[name].version = version],
                        Cmd("poetry lock --no-update", name, <<>>)),
              raised |-> FALSE]

\* VersionManager._update_repository_version: `poetry version` writes the
\* version (and fails without a manifest), `poetry lock --no-update` follows
\* unchecked.  raised: the Exception of a failed `poetry version`.
vm_update_repository_version(w, env, name, version) ==
    LET issued == Run(w, Cmd("poetry version", name, version))
    IN  IF name \in env.version_fails \/ ~w.pyproject[name].exists
        THEN [w |-> issued, raised |-> TRUE]
        ELSE [w |-> Run([issued EXCEPT !.pyproject[name].version = version],
                        Cmd("poetry lock --no-update", name, <<>>)),
              raised |-> FALSE]

\* a rewrite to >=version in place of ^version
rewritten_requirement_at_least(found, version) ==
    IF found.kind = "str" THEN StrRequirement(<<">", "=">> \o version)
    ELSE [found EXCEPT !.version = <<">", "=">> \o version]

\* a requirement rewritten to ^version, a table keeping its other keys
rewritten_requirement(found, version) ==
    IF found.kind = "str" THEN StrRequirement(<<"^">> \o version)
    ELSE [found EXCEPT !.version = <<"^">> \o version]

\* VersionManager._update_dependency_version.  A path-only table is left alone
\* and reported as updated; a `poetry lock` that times out after the manifest
\* was written is reported as not updated.
vm_update_dependency_version(w, env, name, package_name, version) ==
    With(find_dependency(w.pyproject[name].dependencies, package_name), LAMBDA key :
        IF ~w.pyproject[name].exists THEN [w |-> w, ok |-> FALSE]
        ELSE IF key = None THEN [w |-> w, ok |-> FALSE]
        ELSE With(w.pyproject[name].dependencies[key], LAMBDA found :
            IF found.kind = "dict" /\ found.version = None /\ found.path
            THEN [w |-> w, ok |-> TRUE]
            ELSE [w |-> Run([w EXCEPT !.pyproject[name].dependencies[key] =
                                          rewritten_requirement(found, version)],
                            Cmd("poetry lock", name, <<>>)),
                  ok |-> env.lock[name] # "timeout"]))

\* VersionManager._get_dependent_repositories: the names of the repositories
\* that list the repository among their dependencies, in configuration order
NamesOf(repos) == [i \in 1..Len(repos) |-> repos[i].name]
get_dependent_repositories(repos, repository) ==
    LET depends(repo) == repository \in Range(repo.dependencies)
    IN  NamesOf(SelectSeq(repos, depends))

\* _record_version_history that never drops an entry
record_version_history_unbounded(w, entry) ==
    [w EXCEPT !.version_history = Append(w.version_history, entry)]

\* VersionManager._record_version_history
record_version_history(w, entry) ==
    LET appended == Append(w.version_history, entry)
        n == Len(appended)
    IN  [w EXCEPT !.version_history =
            IF n > HistoryLimit THEN SubSeq(appended, n - HistoryLimit + 1, n)
            ELSE appended]

\* how a run of pytest ends
TestOutcomes == {"pass", "none", "fail", "timeout"}

\* _test_repository that takes a timeout for a pass
test_repository_patient(env, name) == env.tests[name] # "fail"

\* _test_repository: pytest passing or finding no tests counts as success
test_repository(env, name) == env.tests[name] \in {"pass", "none"}

\* VersionManager._run_validation_tests: the repository, then each updated
\* dependent whose path exists, stopping at the first failure
RECURSIVE run_validation_tests(_, _, _, _, _, _)
run_validation_tests(w, env, repos, exists, names, i) ==
    IF i > Len(names) THEN [w |-> w, ok |-> TRUE]
    ELSE IF i > 1 /\ ~(HasRepository(repos, names[i]) /\ exists[names[i]])
    THEN run_validation_tests(w, env, repos, exists, names, i + 1)
    ELSE LET tested == Run(w, Cmd("pytest", names[i], <<>>))
         IN  IF test_repository(env, names[i])
             THEN run_validation_tests(tested, env, repos, exists, names, i + 1)
             ELSE [w |-> tested, ok |-> FALSE]

\* the bump of one dependent's own version that sets it in a dry run too
bump_dependent_writing(env, args, name, current, st) ==
    With(calculate_new_version(current, args.dependents_bump, args.alpha), LAMBDA calc :
        IF calc.kind # "return" THEN [st EXCEPT !.raised = TRUE]
        ELSE With(vm_update_repository_version(st.w, env, name, calc.value), LAMBDA set :
            IF set.raised THEN [st EXCEPT !.w = set.w]
            ELSE [st EXCEPT !.w = set.w,
                            !.dependents_updated =
                                Append(@, [name |-> name, old_version |-> current,
                                           new_version |-> calc.value,
                                           bump_type |-> args.dependents_bump])]))

\* the bump of one dependent's own version (lines 120-149 and 159-173).
\* st.raised: an exception that leaves the loop for bump_version's handler.
bump_dependent(env, args, name, current, st) ==
    With(calculate_new_version(current, args.dependents_bump, args.alpha), LAMBDA calc :
        IF calc.kind # "return" THEN [st EXCEPT !.raised = TRUE]
        ELSE With(IF args.dry_run THEN [w |-> st.w, raised |-> FALSE]
                  ELSE vm_update_repository_version(st.w, env, name, calc.value),
                  LAMBDA set :
            IF set.raised THEN [st EXCEPT !.w = set.w]
            ELSE [st EXCEPT !.w = set.w,
                            !.dependents_updated =
                                Append(@, [name |-> name, old_version |-> current,
                                           new_version |-> calc.value,
                                           bump_type |-> args.dependents_bump])]))

\* Step 3 of bump_version, the loop over the dependents (lines 106-177)
RECURSIVE bump_dependents(_, _, _, _, _, _, _)
bump_dependents(env, args, package_name, new_version, dependents, i, st) ==
    IF i > Len(dependents) \/ st.raised THEN st
    ELSE
    With(IF args.dry_run THEN [w |-> st.w, ok |-> TRUE]
         ELSE vm_update_dependency_version(st.w, env, dependents[i], package_name,
                                           new_version),
         LAMBDA dep :
    With(get_current_version(dep.w.pyproject, dependents[i]), LAMBDA current :
    With(IF ~dep.ok \/ Falsy(current) THEN [st EXCEPT !.w = dep.w]
         ELSE bump_dependent(env, args, dependents[i], current, [st EXCEPT !.w = dep.w]),
         LAMBDA next :
        bump_dependents(env, args, package_name, new_version, dependents, i + 1, next))))

\* Steps 3 to 5 of bump_version (lines 94-216), after the repository's own
\* version was set
bump_version_cascade(set, env, repos, exists, args, current_version, new_version) ==
    With(IF args.update_dependents
         THEN bump_dependents(env, args,
                  get_repository(repos, args.repository).package_name, new_version,
                  get_dependent_repositories(repos, args.repository), 1,
                  [w |-> set.w, dependents_updated |-> <<>>, raised |-> FALSE])
         ELSE [w |-> set.w, dependents_updated |-> <<>>, raised |-> FALSE],
         LAMBDA cascade :
        IF cascade.raised THEN [w |-> cascade.w, ret |-> Returned(FALSE)]
        ELSE
        With(IF args.dry_run THEN cascade.w
             ELSE record_version_history(cascade.w,
                      [repository |-> args.repository,
                       old_version |-> current_version,
                       new_version |-> new_version,
                       bump_type |-> args.bump_type,
                       alpha |-> args.alpha,
                       dependents_updated |-> cascade.dependents_updated]),
             LAMBDA recorded :
        With(IF args.validate /\ ~args.dry_run
             THEN run_validation_tests(recorded, env, repos, exists,
                      <<args.repository>>
                          \o [i \in 1..Len(cascade.dependents_updated) |->
                                 cascade.dependents_updated[i].name], 1)
             ELSE [w |-> recorded, ok |-> TRUE],
             LAMBDA validated :
            [w |-> validated.w, ret |-> Returned(validated.ok)])))

\* VersionManager.bump_version: [w, ret].  Every exception raised inside the
\* try block ends in `return False`.
bump_version(w, env, repos, exists, args) ==
    IF ~HasRepository(repos, args.repository) THEN [w |-> w, ret |-> Returned(FALSE)]
    ELSE IF ~exists[args.repository] THEN [w |-> w, ret |-> Returned(FALSE)]
    ELSE
    With(get_current_version(w.pyproject, args.repository), LAMBDA current_version :
        IF Falsy(current_version) THEN [w |-> w, ret |-> Returned(FALSE)]
        ELSE
        With(calculate_new_version(current_version, args.bump_type, args.alpha),
             LAMBDA calc :
            IF calc.kind # "return" THEN [w |-> w, ret |-> Returned(FALSE)]
            ELSE
            With(IF args.dry_run THEN [w |-> w, raised |-> FALSE]
                 ELSE vm_update_repository_version(w, env, args.repository, calc.value),
                 LAMBDA set :
                IF set.raised THEN [w |-> set.w, ret |-> Returned(FALSE)]
                ELSE bump_version_cascade(set, env, repos, exists, args,
                                          current_version, calc.value))))

-----------------------------------------------------------------------------
(* Dependent closure: core/release.py *)

\* the loop over config.repositories for one dequeued name (lines 820-833)
RECURSIVE scan_dependents(_, _, _, _, _, _)
scan_dependents(repos, exists, released, current, i, st) ==
    IF i > Len(repos) THEN st
    ELSE LET repo == repos[i]
             found == /\ repo.name \notin released
                      /\ exists[repo.name]
                      /\ current \in Range(repo.dependencies)
                      /\ repo.name \notin Range(st.all_dependents)
         IN  scan_dependents(repos, exists, released, current, i + 1,
                 IF found
                 THEN [st EXCEPT !.all_dependents = Append(@, repo.name),
                                 !.to_process = Append(@, repo.name)]
                 ELSE st)

\* the while loop over to_process (lines 812-833)
RECURSIVE drain_to_process(_, _, _, _)
drain_to_process(repos, exists, released, st) ==
    IF st.to_process = <<>> THEN st.all_dependents
    ELSE LET current == Head(st.to_process)
             popped == [st EXCEPT !.to_process = Tail(@)]
         IN  IF current \in st.processed
             THEN drain_to_process(repos, exists, released, popped)
             ELSE drain_to_process(repos, exists, released,
                      scan_dependents(repos, exists, released, current, 1,
                          [popped EXCEPT !.processed = @ \cup {current}]))

\* _find_all_dependent_repositories that looks one level up only: a found
\* dependent is not queued for its own dependents
find_direct_dependent_repositories(repos, exists, roots) ==
    LET RECURSIVE each(_, _)
        each(i, st) ==
            IF i > Len(roots) THEN st.all_dependents
            ELSE each(i + 1,
                      scan_dependents(repos, exists, Range(roots), roots[i], 1, st))
    IN  each(1, [to_process |-> <<>>, processed |-> {}, all_dependents |-> <<>>])

\* ReleaseCoordinator._find_all_dependent_repositories; roots lists the names
\* of released_repos in the order list(released_repo_names) yields them, the
\* result lists the names of the repositories returned
find_all_dependent_repositories(repos, exists, roots) ==
    drain_to_process(repos, exists, Range(roots),
        [to_process |-> roots, processed |-> {}, all_dependents |-> <<>>])

-----------------------------------------------------------------------------
(* Prod dependent cascade: core/release.py *)

\* ReleaseCoordinator._update_repository_version: `poetry version`, checked
rc_update_repository_version(w, env, name, version) ==
    LET issued == Run(w, Cmd("poetry version", name, version))
    IN  IF name \in env.version_fails \/ ~w.pyproject[name].exists
        THEN [w |-> issued, raised |-> TRUE]
        ELSE [w |-> [issued EXCEPT !.pyproject[name].version = version],
              raised |-> FALSE]

\* ReleaseCoordinator._update_dependency_version: the manifest is written, and
\* True returned, only when the requirement changes
rc_update_dependency_version(w, name, package_name, version) ==
    With(find_dependency(w.pyproject[name].dependencies, package_name), LAMBDA key :
        IF ~w.pyproject[name].exists THEN [w |-> w, ok |-> FALSE]
        ELSE IF key = None THEN [w |-> w, ok |-> FALSE]
        ELSE With(w.pyproject[name].dependencies[key], LAMBDA found :
            IF found.version = None /\ found.path THEN [w |-> w, ok |-> FALSE]
            ELSE IF found.version = <<"^">> \o version THEN [w |-> w, ok |-> FALSE]
            ELSE [w |-> [w EXCEPT !.pyproject[name].dependencies[key] =
                                      rewritten_requirement(found, version)],
                  ok |-> TRUE]))

\* the manifest `git status --porcelain` compares the working tree with
head_manifest(g) == IF g.head = 0 THEN NoFile ELSE g.commits[g.head].manifest

\* _commit_dependency_changes: git add pyproject.toml, git commit -m message
commit_dependency_changes(w, env, name, message) ==
    LET issued == Run(w, Cmd("git commit", name, message))
    IN  IF name \in env.commit_fails THEN [w |-> issued, raised |-> TRUE]
        ELSE [w |-> [issued EXCEPT
                        !.git[name].commits =
                            Append(@, Commit(w.pyproject[name], w.git[name].head)),
                        !.git[name].head = Len(w.git[name].commits) + 1],
              raised |-> FALSE]

\* the calls of _update_dependency_version on one dependent (lines 672-688):
\* rewrites[i] is the package and version of the i-th call
RECURSIVE rewrite_requirements(_, _, _, _, _)
rewrite_requirements(w, name, rewrites, i, changed) ==
    IF i > Len(rewrites) THEN [w |-> w, dependencies_updated |-> changed]
    ELSE With(rc_update_dependency_version(w, name, rewrites[i].package_name,
                                           rewrites[i].version),
              LAMBDA r :
             rewrite_requirements(r.w, name, rewrites, i + 1, changed \/ r.ok))

\* a list without its repeated elements, first occurrences kept (lines 751-757)
RECURSIVE unique(_)
unique(seq) ==
    IF seq = <<>> THEN <<>>
    ELSE With(unique(SubSeq(seq, 1, Len(seq) - 1)), LAMBDA init :
             IF seq[Len(seq)] \in Range(init) THEN init
             ELSE Append(init, seq[Len(seq)]))

\* package and version of an entry of updated_in_this_cycle
cycle_update(repos, e) ==
    [package_name |-> get_repository(repos, e.name).package_name,
     version |-> IF Falsy(e.version) THEN <<>> ELSE e.version]

\* the rewrites tried on a dependent: the released repositories that have a
\* version (lines 672-677), then the repositories bumped earlier in this cycle
\* (lines 680-688)
cycle_rewrites(repos, released, cycle) ==
    LET from_released(e) == ~Falsy(e.version)
        cascaded(e) == e.name \notin Range(released) /\ HasRepository(repos, e.name)
        selected == SelectSeq(SubSeq(cycle, 1, Len(released)), from_released)
                        \o SelectSeq(cycle, cascaded)
    IN  [i \in 1..Len(selected) |-> cycle_update(repos, selected[i])]

\* a cycle that does not take note of the versions assigned to dependents
cycle_set_forgetful(cycle, name, version) == cycle

\* updated_in_this_cycle[name] = version
cycle_set(cycle, name, version) ==
    IF \E i \in 1..Len(cycle) : cycle[i].name = name
    THEN [i \in 1..Len(cycle) |->
             IF cycle[i].name = name THEN [cycle[i] EXCEPT !.version = version]
             ELSE cycle[i]]
    ELSE Append(cycle, [name |-> name, version |-> version])

\* the commit message (lines 719-765): the released packages, then the
\* packages bumped in this cycle that the dependent declares, with their
\* versions, and the dependent's own new version
commit_message(repos, released, name, cycle, bump) ==
    LET mentioned(e) ==
            /\ ~Falsy(e.version)
            /\ \/ e.name \in Range(released)
               \/ /\ e.name # name
                  /\ HasRepository(repos, e.name)
                  /\ e.name \in Range(get_repository(repos, name).dependencies)
        listed == SelectSeq(cycle, mentioned)
    IN  [updated |-> unique([i \in 1..Len(listed) |-> cycle_update(repos, listed[i])]),
         bump |-> bump]

\* lines 709-775: commit the dependent when `git status --porcelain` reports a
\* change
commit_dependent(repos, env, released, name, bump, st) ==
    IF st.w.pyproject[name] = head_manifest(st.w.git[name])
    THEN [st EXCEPT !.success_count = @ + 1]
    ELSE With(commit_dependency_changes(st.w, env, name,
                  commit_message(repos, released, name, st.updated_in_this_cycle, bump)),
              LAMBDA commit :
             IF commit.raised THEN [st EXCEPT !.w = commit.w]
             ELSE [st EXCEPT !.w = commit.w, !.success_count = @ + 1])

\* lines 690-704: bump the version of a dependent whose requirements changed
bump_updated_dependent(repos, env, released, name, st) ==
    With(get_current_version(st.w.pyproject, name), LAMBDA current_dep_version :
        IF Falsy(current_dep_version)
        THEN commit_dependent(repos, env, released, name, None, st)
        ELSE
        With(calculate_dependent_version_bump(current_dep_version),
             LAMBDA new_dep_version :
        With(rc_update_repository_version(st.w, env, name, new_dep_version),
             LAMBDA set :
            IF set.raised THEN [st EXCEPT !.w = set.w]
            ELSE commit_dependent(repos, env, released, name, new_dep_version,
                     [st EXCEPT !.w = set.w,
                                !.updated_in_this_cycle =
                                    cycle_set(@, name, new_dep_version)]))))

\* the body of the loop over ordered_dependents (lines 664-786) for one
\* dependent; st.updated_in_this_cycle lists [name, version] in insertion
\* order.  An exception leaves the dependent uncounted.
update_dependent(repos, env, released, name, st) ==
    With(rewrite_requirements(st.w, name,
             cycle_rewrites(repos, released, st.updated_in_this_cycle), 1, FALSE),
         LAMBDA rewritten :
        IF ~rewritten.dependencies_updated
        THEN [st EXCEPT !.w = rewritten.w, !.success_count = @ + 1]
        ELSE bump_updated_dependent(repos, env, released, name,
                                    [st EXCEPT !.w = rewritten.w]))

RECURSIVE update_ordered_dependents(_, _, _, _, _, _)
update_ordered_dependents(repos, env, released, ordered_dependents, i, st) ==
    IF i > Len(ordered_dependents) THEN st
    ELSE With(update_dependent(repos, env, released, ordered_dependents[i], st),
              LAMBDA next :
             update_ordered_dependents(repos, env, released, ordered_dependents,
                                       i + 1, next))

\* the dependents in dependency order (lines 650-656)
ordered(all_dependents, dependency_order) ==
    LET in_all(n) == n \in Range(all_dependents)
    IN  SelectSeq(dependency_order, in_all)

\* ReleaseCoordinator._update_dependent_repositories: [w, ret]; released lists
\* the names of released_repos
update_dependent_repositories(w, env, repos, exists, released) ==
    With(find_all_dependent_repositories(repos, exists, released), LAMBDA all_dependents :
        IF all_dependents = <<>> THEN [w |-> w, ret |-> Returned(TRUE)]
        ELSE
        With(get_dependency_order(repos), LAMBDA order :
            IF order.raised THEN [w |-> w, ret |-> Raised("ValueError")]
            ELSE
            With(ordered(all_dependents, order.result), LAMBDA ordered_dependents :
            With(update_ordered_dependents(repos, env, released, ordered_dependents, 1,
                     [w |-> w,
                      updated_in_this_cycle |->
                          [i \in 1..Len(released) |->
                              [name |-> released[i],
                               version |-> get_current_version(w.pyproject,
                                                               released[i])]],
                      success_count |-> 0]),
                 LAMBDA done :
                [w |-> done.w,
                 ret |-> Returned(done.success_count = Len(ordered_dependents))]))))

-----------------------------------------------------------------------------
(* Release orchestrator: core/release.py *)

\* ReleaseStage
Stages == {"dev", "rc", "prod"}

\* datetime.now() in the format _determine_version appends to a dev version
Timestamp == <<"2", "0", "2", "4", "0", "1", "0", "1", "0", "0", "0", "0", "0", "0">>

\* self.release_results[name] = status
set_result(w, name, status) ==
    [w EXCEPT !.release_results =
                  [n \in DOMAIN w.release_results \cup {name} |->
                      IF n = name THEN status ELSE w.release_results[n]],
              !.results_log = Append(@, [name |-> name, status |-> status])]

\* self.backups[repo.name] = repo_backup for the first k of the names: the
\* manifest as it is (NoFile when there is none) and the commit HEAD names (0
\* when `git rev-parse HEAD` fails)
backed_up_to(w, names, k) ==
    [w EXCEPT !.backups =
        [n \in DOMAIN w.backups \cup {names[i] : i \in 1..k} |->
            IF n \in {names[i] : i \in 1..k}
            THEN [pyproject_toml |-> w.pyproject[n], git_commit |-> w.git[n].head]
            ELSE w.backups[n]]]

\* _create_backups: one folder per call and an entry for every configured
\* repository with a directory, in configuration order.  raised: the OSError
\* of the first shutil.copy2 that fails, which ends the loop.
create_backups(w, env, repos, exists) ==
    LET with_directory(n) == exists[n]
        names == SelectSeq(NamesOf(repos), with_directory)
        stops(i) == w.pyproject[names[i]].exists /\ names[i] \in env.copy_fails
        failing == {i \in 1..Len(names) : stops(i)}
    IN  IF failing = {}
        THEN [w |-> [backed_up_to(w, names, Len(names)) EXCEPT !.backup_dirs = @ + 1],
              raised |-> FALSE]
        ELSE [w |-> [backed_up_to(w, names,
                                  (CHOOSE i \in failing : \A j \in failing : i <= j) - 1)
                         EXCEPT !.backup_dirs = @ + 1],
              raised |-> TRUE]

\* _determine_version that gives every stage the base version
determine_version_plain(w, name, stage, version) ==
    With(IF ~Falsy(version) THEN version ELSE get_current_version(w.pyproject, name),
         LAMBDA base_version :
        IF Falsy(base_version) THEN Raised("ValueError")
        ELSE Returned(base_version))

\* _determine_version
determine_version(w, name, stage, version) ==
    With(IF ~Falsy(version) THEN version ELSE get_current_version(w.pyproject, name),
         LAMBDA base_version :
        IF Falsy(base_version) THEN Raised("ValueError")
        ELSE IF stage = "dev"
        THEN Returned(base_version \o <<"+", "d", "e", "v", ".">> \o Timestamp)
        ELSE IF stage = "rc" THEN Returned(base_version \o <<"r", "c", "1">>)
        ELSE Returned(base_version))

\* the tag of a version
TagOf(version) == <<"v">> \o version

\* `git tag -l <tag>` prints the tag
HasTag(g, tag) == \E t \in g.tags : t.tag = tag

\* _version_already_released that finds no tag
version_never_released(w, name, version) == FALSE

\* _version_already_released
version_already_released(w, name, version) == HasTag(w.git[name], TagOf(version))

\* _update_lock_file that takes a failed regeneration for a success
update_lock_file_lenient(w, env, name) ==
    With(Run(w, Cmd("poetry lock", name, <<>>)), LAMBDA locked :
        IF env.lock[name] = "ok" THEN [w |-> locked, raised |-> FALSE]
        ELSE [w |-> Run(locked, Cmd("poetry lock --regenerate", name, <<>>)),
              raised |-> FALSE])

\* _update_lock_file: `poetry lock`, and `poetry lock --regenerate` when that
\* fails or times out.  raised: the error of a regeneration that fails or
\* times out.
update_lock_file(w, env, name) ==
    With(Run(w, Cmd("poetry lock", name, <<>>)), LAMBDA locked :
        IF env.lock[name] = "ok" THEN [w |-> locked, raised |-> FALSE]
        ELSE [w |-> Run(locked, Cmd("poetry lock --regenerate", name, <<>>)),
              raised |-> env.regenerate[name] # "ok"])

\* _run_repository_tests: only exit status 0 of pytest counts as passing
run_repository_tests(w, env, name) ==
    [w |-> Run(w, Cmd("pytest", name, <<>>)), ok |-> env.tests[name] = "pass"]

\* _commit_changes: git add pyproject.toml poetry.lock, git commit -m message.
\* `git commit` fails when neither file differs from HEAD.
commit_changes(w, env, name, message) ==
    With(Run(w, Cmd("git commit", name, message)), LAMBDA issued :
        IF \/ name \in env.commit_fails
           \/ /\ w.pyproject[name] = head_manifest(w.git[name])
              /\ name \notin env.lock_changes
        THEN [w |-> issued, raised |-> TRUE]
        ELSE [w |-> [issued EXCEPT
                        !.git[name].commits =
                            Append(@, Commit(w.pyproject[name], w.git[name].head)),
                        !.git[name].head = Len(w.git[name].commits) + 1],
              raised |-> FALSE])

release_message(version) ==
    <<"R", "e", "l", "e", "a", "s", "e", " ", "v", "e", "r", "s", "i", "o", "n", " ">>
        \o version

\* the release steps that commit whatever the tests say
release_steps_untested(w, env, name, new_version, skip_tests) ==
    With(rc_update_repository_version(w, env, name, new_version), LAMBDA set :
        IF set.raised THEN [w |-> set.w, ok |-> FALSE]
        ELSE With(update_lock_file(set.w, env, name), LAMBDA locked :
            IF locked.raised THEN [w |-> locked.w, ok |-> FALSE]
            ELSE With(IF skip_tests THEN [w |-> locked.w, ok |-> TRUE]
                      ELSE run_repository_tests(locked.w, env, name),
                      LAMBDA tested :
                With(commit_changes(tested.w, env, name, release_message(new_version)),
                     LAMBDA commit :
                    [w |-> commit.w, ok |-> ~commit.raised]))))

\* steps 1 to 5 of _process_single_repository when it is not a dry run
\* (lines 396-414); any exception makes the repository fail
release_steps(w, env, name, new_version, skip_tests) ==
    With(rc_update_repository_version(w, env, name, new_version), LAMBDA set :
        IF set.raised THEN [w |-> set.w, ok |-> FALSE]
        ELSE With(update_lock_file(set.w, env, name), LAMBDA locked :
            IF locked.raised THEN [w |-> locked.w, ok |-> FALSE]
            ELSE With(IF skip_tests THEN [w |-> locked.w, ok |-> TRUE]
                      ELSE run_repository_tests(locked.w, env, name),
                      LAMBDA tested :
                IF ~tested.ok THEN [w |-> tested.w, ok |-> FALSE]
                ELSE With(commit_changes(tested.w, env, name,
                                         release_message(new_version)),
                          LAMBDA commit :
                         [w |-> commit.w, ok |-> ~commit.raised]))))

\* _process_single_repository that takes the release steps in a dry run too
process_single_repository_writing(w, env, exists, name, stage, version, dry_run, skip_tests) ==
    IF ~exists[name] THEN [w |-> w, ok |-> FALSE]
    ELSE With(determine_version(w, name, stage, version), LAMBDA new_version :
        IF new_version.kind # "return" THEN [w |-> w, ok |-> FALSE]
        ELSE IF /\ stage = "prod"
                /\ ~dry_run
                /\ version_already_released(w, name, new_version.value)
        THEN [w |-> w, ok |-> TRUE]
        ELSE release_steps(w, env, name, new_version.value, skip_tests))

\* _process_single_repository
process_single_repository(w, env, exists, name, stage, version, dry_run, skip_tests) ==
    IF ~exists[name] THEN [w |-> w, ok |-> FALSE]
    ELSE With(determine_version(w, name, stage, version), LAMBDA new_version :
        IF new_version.kind # "return" THEN [w |-> w, ok |-> FALSE]
        ELSE IF /\ stage = "prod"
                /\ ~dry_run
                /\ version_already_released(w, name, new_version.value)
        THEN [w |-> w, ok |-> TRUE]
        ELSE IF dry_run THEN [w |-> w, ok |-> TRUE]
        ELSE release_steps(w, env, name, new_version.value, skip_tests))

\* the version a repository is released with (lines 262-266)
repo_version(args, name) ==
    IF name \in DOMAIN args.repository_versions THEN args.repository_versions[name]
    ELSE IF ~Falsy(args.version) THEN args.version
    ELSE None

\* _process_single_repository with the arguments of the release
process(w, env, exists, args, name) ==
    process_single_repository(w, env, exists, name, args.stage,
                              repo_version(args, name), args.dry_run, args.skip_tests)

\* _process_repositories_sequential that goes on after every failure
RECURSIVE process_repositories_forced(_, _, _, _, _, _)
process_repositories_forced(w, env, exists, args, release_order, i) ==
    IF i > Len(release_order) THEN [w |-> w, ok |-> TRUE]
    ELSE With(process(w, env, exists, args, release_order[i]), LAMBDA r :
        process_repositories_forced(
            set_result(r.w, release_order[i], IF r.ok THEN "success" ELSE "failed"),
            env, exists, args, release_order, i + 1))

\* _process_repositories_sequential from the i-th name of release_order on
RECURSIVE process_repositories_sequential(_, _, _, _, _, _)
process_repositories_sequential(w, env, exists, args, release_order, i) ==
    IF i > Len(release_order) THEN [w |-> w, ok |-> TRUE]
    ELSE With(process(w, env, exists, args, release_order[i]), LAMBDA r :
        IF r.ok
        THEN process_repositories_sequential(
                 set_result(r.w, release_order[i], "success"),
                 env, exists, args, release_order, i + 1)
        ELSE IF args.force
        THEN process_repositories_sequential(
                 set_result(r.w, release_order[i], "failed"),
                 env, exists, args, release_order, i + 1)
        ELSE [w |-> r.w, ok |-> FALSE])

\* the futures of the independent repositories as they complete (lines
\* 329-341), from the i-th on; no worker touches another's repository, so the
\* workers' steps are taken in the order the workers complete
RECURSIVE complete_futures(_, _, _, _, _, _)
complete_futures(env, exists, args, completed, i, st) ==
    IF i > Len(completed) THEN st
    ELSE With(process(st.w, env, exists, args, completed[i]), LAMBDA r :
        complete_futures(env, exists, args, completed, i + 1,
            [w |-> set_result(r.w, completed[i], IF r.ok THEN "success" ELSE "failed"),
             ok |-> st.ok /\ r.ok]))

\* the dependent repositories one after the other (lines 344-361)
RECURSIVE process_dependent_repos(_, _, _, _, _, _)
process_dependent_repos(w, env, exists, args, dependent_repos, i) ==
    IF i > Len(dependent_repos) THEN [w |-> w, ok |-> TRUE]
    ELSE With(process(w, env, exists, args, dependent_repos[i]), LAMBDA r :
        IF r.ok
        THEN process_dependent_repos(set_result(r.w, dependent_repos[i], "success"),
                                     env, exists, args, dependent_repos, i + 1)
        ELSE [w |-> set_result(r.w, dependent_repos[i], "failed"), ok |-> FALSE])

\* the repositories handed to the thread pool
independent_repos(repos, repos_to_release) ==
    LET independent(n) == get_repository(repos, n).dependencies = <<>>
    IN  SelectSeq(repos_to_release, independent)

\* the repositories processed after the pool is done
dependent_repos_of(repos, repos_to_release) ==
    LET dependent(n) == get_repository(repos, n).dependencies # <<>>
    IN  SelectSeq(repos_to_release, dependent)

\* _process_repositories_parallel; env.schedule orders the workers' completion
process_repositories_parallel(w, env, repos, exists, args, repos_to_release) ==
    With(independent_repos(repos, repos_to_release), LAMBDA independent :
        With(complete_futures(env, exists, args,
                              LET submitted(n) == n \in Range(independent)
                              IN  SelectSeq(env.schedule, submitted),
                              1, [w |-> w, ok |-> TRUE]),
             LAMBDA pooled :
            IF ~pooled.ok THEN pooled
            ELSE process_dependent_repos(pooled.w, env, exists, args,
                     dependent_repos_of(repos, repos_to_release), 1)))

\* _tag_release.  raised: the CalledProcessError of a failed `git tag -a` or
\* `git push origin <tag>`.
tag_release(w, env, name, version) ==
    IF HasTag(w.git[name], TagOf(version)) THEN [w |-> w, raised |-> FALSE]
    ELSE With(Run(w, Cmd("git tag", name, TagOf(version))), LAMBDA issued :
        IF name \in env.tag_fails THEN [w |-> issued, raised |-> TRUE]
        ELSE [w |-> Run([issued EXCEPT
                            !.git[name].tags =
                                @ \cup {[tag |-> TagOf(version),
                                         commit |-> w.git[name].head]}],
                        Cmd("git push origin", name, TagOf(version))),
              raised |-> name \in env.push_fails])

\* the tagging loop (lines 153-156) from the i-th released repository on
RECURSIVE tag_releases(_, _, _, _)
tag_releases(w, env, repos_to_release, i) ==
    IF i > Len(repos_to_release) THEN [w |-> w, raised |-> FALSE]
    ELSE With(get_current_version(w.pyproject, repos_to_release[i]), LAMBDA new_version :
        IF Falsy(new_version) THEN tag_releases(w, env, repos_to_release, i + 1)
        ELSE With(tag_release(w, env, repos_to_release[i], new_version), LAMBDA tagged :
            IF tagged.raised THEN tagged
            ELSE tag_releases(tagged.w, env, repos_to_release, i + 1)))

\* the push loop (lines 160-167) from the i-th released repository on; a
\* failed push is logged, a missing directory raises FileNotFoundError
RECURSIVE push_commits(_, _, _, _)
push_commits(w, exists, repos_to_release, i) ==
    IF i > Len(repos_to_release) THEN [w |-> w, raised |-> FALSE]
    ELSE IF ~exists[repos_to_release[i]] THEN [w |-> w, raised |-> TRUE]
    ELSE push_commits(Run(w, Cmd("git push", repos_to_release[i], <<>>)),
                      exists, repos_to_release, i + 1)

\* `git merge-base --is-ancestor <commit> <head>`
RECURSIVE IsAncestor(_, _, _)
IsAncestor(g, commit, head) ==
    /\ head # 0
    /\ \/ commit = head
       \/ IsAncestor(g, commit, g.commits[head].parent)

\* _cleanup_orphaned_tags that deletes nothing
cleanup_orphaned_tags_none(w, name) == w

\* _cleanup_orphaned_tags: the tags whose commit HEAD does not descend from
\* are deleted
cleanup_orphaned_tags(w, name) ==
    [w EXCEPT !.git[name].tags =
        {t \in @ : IsAncestor(w.git[name], t.commit, w.git[name].head)}]

\* the lock refresh of a rollback (lines 998-1017).  raised: the error of a
\* failed regeneration.
rollback_lock(w, env, name) ==
    With(Run(w, Cmd("poetry lock", name, <<>>)), LAMBDA locked :
        IF env.lock[name] = "ok" THEN [w |-> locked, raised |-> FALSE]
        ELSE [w |-> Run(locked, Cmd("poetry lock --regenerate", name, <<>>)),
              raised |-> env.regenerate[name] # "ok"])

\* `git reset --hard <commit>`: HEAD and the tracked manifest become the commit's
git_reset(w, name, commit) ==
    [w EXCEPT !.git[name].head = commit,
              !.pyproject[name] = w.git[name].commits[commit].manifest]

\* the body of the rollback loop for one backup (lines 981-1023): the
\* manifest copy, the reset, the tag cleanup, the lock refresh, and the
\* rolled-back status when none of them raised
restore(w, env, name) ==
    With(IF w.backups[name].pyproject_toml.exists
         THEN [w EXCEPT !.pyproject[name] = w.backups[name].pyproject_toml]
         ELSE w,
         LAMBDA copied :
        With(IF w.backups[name].git_commit = 0 THEN copied
             ELSE Run(copied, Cmd("git reset --hard", name, <<>>)),
             LAMBDA issued :
            IF w.backups[name].git_commit # 0 /\ name \in env.reset_fails THEN issued
            ELSE With(cleanup_orphaned_tags(
                          IF w.backups[name].git_commit = 0 THEN issued
                          ELSE git_reset(issued, name, w.backups[name].git_commit),
                          name),
                      LAMBDA cleaned :
                With(rollback_lock(cleaned, env, name), LAMBDA locked :
                    IF locked.raised THEN locked.w
                    ELSE set_result(locked.w, name, "rolled_back")))))

\* _rollback_release that gives up at the first restore that raises
RECURSIVE rollback_release_halting(_, _, _, _)
rollback_release_halting(w, env, backed, i) ==
    IF i > Len(backed) THEN w
    ELSE With(restore(w, env, backed[i]), LAMBDA restored :
        IF /\ backed[i] \in DOMAIN restored.release_results
           /\ restored.release_results[backed[i]] = "rolled_back"
        THEN rollback_release_halting(restored, env, backed, i + 1)
        ELSE restored)

\* _rollback_release from the i-th backup on, the backups in the order they
\* were taken
RECURSIVE rollback_release(_, _, _, _)
rollback_release(w, env, backed, i) ==
    IF i > Len(backed) THEN w
    ELSE rollback_release(restore(w, env, backed[i]), env, backed, i + 1)

\* the names self.backups holds, in configuration order
backed_up(w, repos) ==
    LET backed(n) == n \in DOMAIN w.backups
    IN  SelectSeq(NamesOf(repos), backed)

\* _create_backups and then _rollback_release, nothing in between
backup_and_rollback(w, env, repos, exists) ==
    With(create_backups(w, env, repos, exists), LAMBDA backed :
        IF backed.raised THEN [w |-> backed.w, ret |-> Raised("OSError")]
        ELSE [w |-> rollback_release(backed.w, env, backed_up(backed.w, repos), 1),
              ret |-> Returned(None)])

\* _create_backups, the release steps and the tag of one repository, and then
\* _rollback_release: a run that fails after it has tagged
release_tag_and_rollback(w, env, repos, exists, name, version) ==
    With(create_backups(w, env, repos, exists), LAMBDA backed :
        IF backed.raised THEN [w |-> backed.w, ret |-> Raised("OSError")]
        ELSE
        With(release_steps(backed.w, env, name, version, FALSE), LAMBDA stepped :
        With(IF stepped.ok THEN tag_release(stepped.w, env, name, version).w
             ELSE stepped.w,
             LAMBDA tagged :
            [w |-> rollback_release(tagged, env, backed_up(tagged, repos), 1),
             ret |-> Returned(None)])))

\* lines 174-186 without the rollback
handle_results_keep(w, env, repos, args, success) == [w |-> w, ret |-> Returned(success)]

\* lines 174-186: the rollback of a failed release that is neither a dry run
\* nor forced, and the value returned
handle_results(w, env, repos, args, success) ==
    IF success \/ args.dry_run \/ args.force THEN [w |-> w, ret |-> Returned(success)]
    ELSE [w |-> rollback_release(w, env, backed_up(w, repos), 1),
          ret |-> Returned(FALSE)]

\* _run_integration_tests that reports a failure
run_integration_tests_failing(w) ==
    [w |-> Run(w, Cmd("_run_integration_tests", None, <<>>)), ok |-> FALSE]

\* _run_integration_tests: the call is recorded; it runs nothing and returns
\* True
run_integration_tests(w) ==
    [w |-> Run(w, Cmd("_run_integration_tests", None, <<>>)), ok |-> TRUE]

\* lines 169-186: the integration tests of a run that succeeded so far, then
\* the results
conclude(w, env, repos, args, success) ==
    IF success /\ ~args.skip_tests /\ ~args.dry_run
    THEN With(run_integration_tests(w), LAMBDA tested :
             handle_results(tested.w, env, repos, args, tested.ok))
    ELSE handle_results(w, env, repos, args, success)

\* lines 150-167: the tags and pushes of a prod release
tag_and_push(w, env, repos, exists, args, repos_to_release) ==
    With(tag_releases(w, env, repos_to_release, 1), LAMBDA tagged :
        IF tagged.raised THEN [w |-> tagged.w, ret |-> Raised("CalledProcessError")]
        ELSE With(push_commits(tagged.w, exists, repos_to_release, 1), LAMBDA pushed :
            IF pushed.raised THEN [w |-> pushed.w, ret |-> Raised("FileNotFoundError")]
            ELSE conclude(pushed.w, env, repos, args, TRUE)))

\* lines 145-186: what follows the processing of the repositories
finish_release(w, env, repos, exists, args, repos_to_release, success) ==
    IF ~(success /\ args.stage = "prod" /\ ~args.dry_run)
    THEN conclude(w, env, repos, args, success)
    ELSE With(update_dependent_repositories(w, env, repos, exists, repos_to_release),
              LAMBDA updated :
        IF updated.ret.kind # "return" THEN updated
        ELSE IF ~updated.ret.value
        THEN conclude(updated.w, env, repos, args, FALSE)
        ELSE tag_and_push(updated.w, env, repos, exists, args, repos_to_release))

\* lines 111-143: the release order and the processing of the repositories
release_repositories(w, env, repos, exists, args, repos_to_release) ==
    With(get_dependency_order(repos), LAMBDA order :
        IF order.raised THEN [w |-> w, ret |-> Raised("ValueError")]
        ELSE With(IF args.parallel /\ args.stage = "dev"
                  THEN process_repositories_parallel(w, env, repos, exists, args,
                                                     repos_to_release)
                  ELSE process_repositories_sequential(
                           w, env, exists, args,
                           LET released(n) == n \in Range(repos_to_release)
                           IN  SelectSeq(order.result, released),
                           1),
                  LAMBDA processed :
                 finish_release(processed.w, env, repos, exists, args,
                                repos_to_release, processed.ok)))

\* create_release that does not check the keys of repository_versions
create_release_unchecked(w, env, repos, exists, args) ==
    IF args.stage \notin Stages THEN [w |-> w, ret |-> Raised("ValueError")]
    ELSE IF \E i \in DOMAIN args.repositories :
                ~HasRepository(repos, args.repositories[i])
    THEN [w |-> w, ret |-> Returned(FALSE)]
    ELSE With(IF args.dry_run THEN [w |-> w, raised |-> FALSE]
              ELSE create_backups(w, env, repos, exists),
              LAMBDA backed :
        IF backed.raised THEN [w |-> backed.w, ret |-> Raised("OSError")]
        ELSE release_repositories(backed.w, env, repos, exists, args,
                                  IF args.repositories # <<>> THEN args.repositories
                                  ELSE NamesOf(repos)))

\* create_release; args.repositories is empty for "all repositories"
create_release(w, env, repos, exists, args) ==
    IF args.stage \notin Stages THEN [w |-> w, ret |-> Raised("ValueError")]
    ELSE IF \E i \in DOMAIN args.repositories :
                ~HasRepository(repos, args.repositories[i])
    THEN [w |-> w, ret |-> Returned(FALSE)]
    ELSE With(IF args.repositories # <<>> THEN args.repositories ELSE NamesOf(repos),
              LAMBDA repos_to_release :
        IF \E n \in DOMAIN args.repository_versions : n \notin Range(repos_to_release)
        THEN [w |-> w, ret |-> Returned(FALSE)]
        ELSE With(IF args.dry_run THEN [w |-> w, raised |-> FALSE]
                  ELSE create_backups(w, env, repos, exists),
                  LAMBDA backed :
            IF backed.raised THEN [w |-> backed.w, ret |-> Raised("OSError")]
            ELSE release_repositories(backed.w, env, repos, exists, args,
                                      repos_to_release)))

-----------------------------------------------------------------------------
(* Synchronising requirements: core/version_manager.py *)

\* the information on one managed dependency (lines 588-605)
dependency_info(w, exists, spec, dep_name) ==
    [name |-> dep_name,
     current_version |->
         IF exists[dep_name] THEN get_current_version(w.pyproject, dep_name) ELSE None,
     required_version |-> spec.version,
     is_path |-> spec.kind = "dict" /\ spec.path]

\* VersionManager._get_dependency_info, the managed dependencies only: a
\* manifest key is managed when it is the name of a configured repository
get_dependency_info(w, repos, exists, name) ==
    LET managed(repo) == repo.name \in DOMAIN w.pyproject[name].dependencies
    IN  IF ~w.pyproject[name].exists THEN <<>>
        ELSE With(NamesOf(SelectSeq(repos, managed)), LAMBDA keys :
                 [i \in 1..Len(keys) |->
                     dependency_info(w, exists, w.pyproject[name].dependencies[keys[i]],
                                     keys[i])])

\* version_map.get(dep_name, {}).get("version"): the map is keyed by the
\* package names of the repositories that exist and have a version, a later
\* repository replacing an earlier one with the same package name
version_map_get(w, repos, exists, dep_name) ==
    LET has(i) == /\ repos[i].package_name = dep_name
                  /\ exists[repos[i].name]
                  /\ ~Falsy(get_current_version(w.pyproject, repos[i].name))
    IN  IF \E i \in 1..Len(repos) : has(i)
        THEN get_current_version(w.pyproject,
                 repos[CHOOSE i \in 1..Len(repos) :
                           has(i) /\ \A j \in (i + 1)..Len(repos) : ~has(j)].name)
        ELSE None

\* whether a dependency needs an update (lines 813-823)
outdated(dep, current_version) ==
    /\ ~dep.is_path
    /\ ~Falsy(current_version)
    /\ ~Falsy(dep.required_version)
    /\ LStrip(dep.required_version, {"^", "~", "="}) # current_version

\* the updates one repository needs (lines 810-832)
updates_needed_of(w, repos, exists, name) ==
    LET is_outdated(dep) == outdated(dep, version_map_get(w, repos, exists, dep.name))
    IN  With(SelectSeq(get_dependency_info(w, repos, exists, name), is_outdated),
             LAMBDA needed :
            [i \in 1..Len(needed) |->
                [repo |-> name, dependency |-> needed[i].name,
                 actual_version |-> version_map_get(w, repos, exists, needed[i].name)]])

RECURSIVE updates_needed(_, _, _, _, _)
updates_needed(w, repos, exists, dependency_order, i) ==
    IF i > Len(dependency_order) THEN <<>>
    ELSE (IF HasRepository(repos, dependency_order[i]) /\ exists[dependency_order[i]]
          THEN updates_needed_of(w, repos, exists, dependency_order[i])
          ELSE <<>>)
         \o updates_needed(w, repos, exists, dependency_order, i + 1)

\* the loop applying the updates (lines 861-876)
RECURSIVE apply_updates(_, _, _, _, _)
apply_updates(env, dry_run, updates, i, st) ==
    IF i > Len(updates) THEN st
    ELSE IF dry_run
    THEN apply_updates(env, dry_run, updates, i + 1,
                       [st EXCEPT !.success_count = @ + 1])
    ELSE With(vm_update_dependency_version(st.w, env, updates[i].repo,
                  updates[i].dependency, updates[i].actual_version),
              LAMBDA r :
             apply_updates(env, dry_run, updates, i + 1,
                 [w |-> r.w,
                  success_count |-> st.success_count + (IF r.ok THEN 1 ELSE 0)]))

\* VersionManager.sync_dependency_versions: [w, ret]; args.confirm is the
\* user's answer to "Proceed with updates?"
sync_dependency_versions(w, env, repos, exists, args) ==
    With(get_dependency_order(repos), LAMBDA order :
        IF order.raised THEN [w |-> w, ret |-> Raised("ValueError")]
        ELSE
        With(updates_needed(w, repos, exists, order.result, 1), LAMBDA updates :
            IF updates = <<>> THEN [w |-> w, ret |-> Returned(TRUE)]
            ELSE IF ~args.force /\ ~args.dry_run /\ ~args.confirm
            THEN [w |-> w, ret |-> Returned(FALSE)]
            ELSE With(apply_updates(env, args.dry_run, updates, 1,
                                    [w |-> w, success_count |-> 0]),
                      LAMBDA applied :
                     [w |-> applied.w,
                      ret |-> Returned(applied.success_count = Len(updates))])))

-----------------------------------------------------------------------------
(* The enumerated configurations *)

\* three repositories a, b, c in configuration order, each with any dependency
\* list of at most MaxDeps distinct names among a, b, c and an unconfigured name
WideConfigs ==
    LET deps == DistinctSeqs(Range(RepoNames) \cup {Unconfigured}, MaxDeps)
    IN  {[i \in 1..Len(RepoNames) |-> RepositoryConfig(RepoNames[i], RepoNames[i], d[i])] :
            d \in [1..Len(RepoNames) -> deps]}

\* there is a path of declared dependencies from m to n (one edge or more)
RECURSIVE ReachIn(_, _, _, _)
ReachIn(graph, m, n, k) ==
    k > 0 /\ \E d \in Range(GraphGet(graph, m)) :
                 d = n \/ ReachIn(graph, d, n, k - 1)
DependsOn(repos, m, n) ==
    ReachIn(DependencyGraph(repos), m, n, Len(repos))
OnCycle(repos, n) == DependsOn(repos, n, n)
Cyclic(repos) == \E n \in ConfiguredNames(repos) : OnCycle(repos, n)

NoRet == [kind |-> "none"]

\* no release is under way
Idle == [phase |-> "idle"]

\* the environment in which every external command succeeds and every test
\* passes.  version_fails, commit_fails, tag_fails, push_fails, reset_fails:
\* the repositories in which `poetry version`, `git commit`, `git tag -a`,
\* `git push origin <tag>`, `git reset --hard` fail; lock, regenerate: how
\* `poetry lock` and `poetry lock --regenerate` end in a repository (ok, fail,
\* timeout); lock_changes: the repositories whose poetry.lock a lock refresh
\* changes; tests: how pytest ends; copy_fails: the repositories whose
\* pyproject.toml shutil.copy2 cannot read; schedule: the order in which the
\* workers of a thread pool complete.
Calm ==
    [version_fails |-> {},
     lock |-> [n \in Range(RepoNames) |-> "ok"],
     regenerate |-> [n \in Range(RepoNames) |-> "ok"],
     lock_changes |-> {},
     tests |-> [n \in Range(RepoNames) |-> "pass"],
     commit_fails |-> {}, tag_fails |-> {}, push_fails |-> {}, reset_fails |-> {},
     copy_fails |-> {},
     schedule |-> RepoNames]

\* the parts of the state an operation on the configuration alone never reads
InitWorld ==
    /\ path_exists = [n \in Range(RepoNames) |-> TRUE]
    /\ pyproject = [n \in Range(RepoNames) |-> NoFile]
    /\ git = [n \in Range(RepoNames) |-> NoGit]
    /\ version_history = <<>>
    /\ backup_dirs = 0
    /\ backups = <<>>
    /\ release_results = <<>>
    /\ results_log = <<>>
    /\ cmds = <<>>
    /\ environment = Calm

-----------------------------------------------------------------------------
(* The enumerated version strings and requirements *)

Nums == 0..MaxNum
BuildMeta == <<"+", "d", "e", "v", ".", "1">>

\* MAJOR.MINOR.PATCH[-alpha.N] without leading zeros
CanonicalVersions ==
    {FormatRelease(a, b, c) : a \in Nums, b \in Nums, c \in Nums}
    \cup {FormatAlpha(v[1], v[2], v[3], n) : v \in Nums \X Nums \X Nums, n \in 1..MaxAlpha}

\* the versions the specification and the tests name, versions whose bump
\* carries into a second digit, a leading zero, and alpha 0
SampleVersions ==
    { <<"1", ".", "2", ".", "3">>,
      <<"1", ".", "2", ".", "4", "-", "a", "l", "p", "h", "a", ".", "1">>,
      <<"1", ".", "2", ".", "4", "-", "a", "l", "p", "h", "a", ".", "2">>,
      <<"9", ".", "9", ".", "9">>,
      <<"1", ".", "9", ".", "9", "-", "a", "l", "p", "h", "a", ".", "9">>,
      <<"1", "0", ".", "2", "0", ".", "3", "0">>,
      <<"0", "1", ".", "2", ".", "3">>,
      <<"1", ".", "0", ".", "0", "-", "a", "l", "p", "h", "a", ".", "0">> }

\* strings the version pattern rejects
UnparseableVersions ==
    { <<>>,
      <<"1", ".", "2">>,
      <<"1", ".", "2", ".", "3", ".", "4">>,
      <<"1", ".", ".", "3">>,
      <<"v", "1", ".", "0", ".", "0">>,
      <<"1", ".", "0", ".", "0", "r", "c", "1">>,
      <<"1", ".", "2", ".", "3", "-", "b", "e", "t", "a", ".", "1">>,
      <<"1", ".", "2", ".", "3", "-", "a", "l", "p", "h", "a", ".">>,
      <<"1", ".", "2", ".", "3", "-", "a", "l", "p", "h", "a", ".", "1", "-", "x">> }

VersionStrings ==
    LET parseable == CanonicalVersions \cup SampleVersions
    IN  parseable \cup {v \o BuildMeta : v \in parseable} \cup UnparseableVersions

-----------------------------------------------------------------------------
(* _calculate_new_version on every enumerated version, bump type and flag *)

InitSemVer ==
    /\ repositories = <<>>
    /\ InitWorld
    /\ \E v \in VersionStrings, k \in BumpTypes \cup {"build"}, a \in BOOLEAN :
           call = [op |-> "_calculate_new_version",
                   current_version |-> v, bump_type |-> k, alpha |-> a]
    /\ ret = NoRet
    /\ executor = Idle

CalculateNewVersion ==
    /\ call.op = "_calculate_new_version"
    /\ ret.kind = "none"
    /\ ret' = calculate_new_version(call.current_version, call.bump_type, call.alpha)
    /\ UNCHANGED <<repositories, path_exists, world, environment, call, executor>>

NextSemVer == CalculateNewVersion

SpecSemVer == InitSemVer /\ [][NextSemVer]_vars

V123 == <<"1", ".", "2", ".", "3">>
V124a1 == <<"1", ".", "2", ".", "4", "-", "a", "l", "p", "h", "a", ".", "1">>
V124a2 == <<"1", ".", "2", ".", "4", "-", "a", "l", "p", "h", "a", ".", "2">>

\* the bump of a non-alpha version: patch+1 / minor+1, patch 0 / major+1, minor and patch 0
PlainBump(v, kind) ==
    IF kind = "patch" THEN <<v.major, v.minor, v.patch + 1>>
    ELSE IF kind = "minor" THEN <<v.major, v.minor + 1, 0>>
    ELSE <<v.major + 1, 0, 0>>

\* the promotion of an alpha version: patch keeps all three, minor sets patch
\* to 0, major sets minor and patch to 0
Promotion(v, kind) ==
    IF kind = "patch" THEN <<v.major, v.minor, v.patch>>
    ELSE IF kind = "minor" THEN <<v.major, v.minor, 0>>
    ELSE <<v.major, 0, 0>>

\* C4: for every parseable version and every kind in patch, minor, major,
\* _calculate_new_version with alpha=true returns, when the input is alpha N,
\* the same major.minor.patch with alpha N+1 whatever the kind, and otherwise
\* the non-alpha bump for the kind followed by -alpha.1 (1.2.3 patch gives
\* 1.2.4-alpha.1, 1.2.4-alpha.1 patch gives 1.2.4-alpha.2); build metadata is
\* dropped from the result.
C4_AlphaBump ==
    (/\ ret.kind # "none"
     /\ call.alpha
     /\ call.bump_type \in BumpTypes
     /\ ParseVersion(call.current_version).matched) =>
        LET v == ParseVersion(call.current_version)
            b == PlainBump(v, call.bump_type)
        IN  /\ ret.kind = "return"
            /\ ret.value = IF v.is_alpha
                           THEN FormatAlpha(v.major, v.minor, v.patch, v.alpha + 1)
                           ELSE FormatAlpha(b[1], b[2], b[3], 1)
            /\ IndexOf(ret.value, "+") = 0
            /\ (call.current_version = V123 /\ call.bump_type = "patch")
                   => ret.value = V124a1
            /\ call.current_version = V124a1 => ret.value = V124a2

\* C4 witness: 1.2.4-alpha.1+dev.1 with kind major becomes 1.2.4-alpha.2: the
\* kind is ignored and the build metadata dropped.
C4_Witness ==
    /\ call.current_version = V124a1 \o BuildMeta
    /\ call.bump_type = "major"
    /\ call.alpha
    /\ ret.kind = "return"
    /\ ret.value = V124a2

\* C5: for every parseable version and every kind in patch, minor, major,
\* _calculate_new_version with alpha=false returns a version without alpha
\* suffix: an alpha input is promoted (patch keeps major.minor.patch, minor
\* sets patch to 0, major sets minor and patch to 0), a non-alpha input gets
\* patch+1, or minor+1 with patch 0, or major+1 with minor and patch 0.
C5_ReleaseBump ==
    (/\ ret.kind # "none"
     /\ ~call.alpha
     /\ call.bump_type \in BumpTypes
     /\ ParseVersion(call.current_version).matched) =>
        LET v == ParseVersion(call.current_version)
            b == IF v.is_alpha THEN Promotion(v, call.bump_type)
                               ELSE PlainBump(v, call.bump_type)
        IN  /\ ret.kind = "return"
            /\ ret.value = FormatRelease(b[1], b[2], b[3])
            /\ IndexOf(ret.value, "-") = 0
            /\ (call.current_version = V124a2 /\ call.bump_type = "patch")
                   => ret.value = <<"1", ".", "2", ".", "4">>
            /\ (call.current_version = V123 /\ call.bump_type = "minor")
                   => ret.value = <<"1", ".", "3", ".", "0">>
            /\ (call.current_version = V123 /\ call.bump_type = "major")
                   => ret.value = <<"2", ".", "0", ".", "0">>

\* C5 witness: 1.2.4-alpha.1 promoted with kind minor becomes 1.2.0.
C5_Witness ==
    /\ call.current_version = V124a1
    /\ call.bump_type = "minor"
    /\ ~call.alpha
    /\ ret.kind = "return"
    /\ ret.value = <<"1", ".", "2", ".", "0">>

-----------------------------------------------------------------------------
(* _calculate_new_version applied repeatedly: alpha bumps, then a release *)

\* the largest number of alpha bumps in a row
MaxAlphaBumps == 3

\* the versions without alpha suffix that _calculate_new_version can parse
ReleasedVersions ==
    {v \in VersionStrings : ParseVersion(v).matched /\ ~ParseVersion(v).is_alpha}

\* a progression starts from a version without alpha suffix; ret holds the
\* version reached so far
InitProgression ==
    /\ repositories = <<>>
    /\ InitWorld
    /\ \E v \in ReleasedVersions, k \in BumpTypes :
           call = [op |-> "_calculate_new_version, repeated",
                   current_version |-> v, bump_type |-> k,
                   alpha_bumps |-> 0, released |-> FALSE, release_type |-> k]
    /\ ret = Returned(call.current_version)
    /\ executor = Idle

\* one more alpha bump of the kind of the progression
AlphaBump ==
    /\ call.op = "_calculate_new_version, repeated"
    /\ ~call.released
    /\ ret.kind = "return"
    /\ call.alpha_bumps < MaxAlphaBumps
    /\ ret' = calculate_new_version(ret.value, call.bump_type, TRUE)
    /\ call' = [call EXCEPT !.alpha_bumps = @ + 1]
    /\ UNCHANGED <<repositories, path_exists, world, environment, executor>>

\* the bump without the alpha flag that ends the progression, of any kind
ReleaseBump ==
    /\ call.op = "_calculate_new_version, repeated"
    /\ ~call.released
    /\ ret.kind = "return"
    /\ call.alpha_bumps > 0
    /\ \E k \in BumpTypes :
           /\ ret' = calculate_new_version(ret.value, k, FALSE)
           /\ call' = [call EXCEPT !.released = TRUE, !.release_type = k]
    /\ UNCHANGED <<repositories, path_exists, world, environment, executor>>

NextProgression == AlphaBump \/ ReleaseBump

SpecProgression == InitProgression /\ [][NextProgression]_vars

\* C38: for every version v without alpha suffix and every kind, any positive
\* number of alpha bumps of that kind followed by one patch bump without the
\* alpha flag gives the version that a single bump of that kind without the
\* alpha flag gives for v (1.2.3 -> 1.2.4-alpha.1 -> 1.2.4-alpha.2 -> 1.2.4).
C38_AlphaProgression ==
    (/\ call.op = "_calculate_new_version, repeated"
     /\ call.released
     /\ call.release_type = "patch")
    => /\ ret = calculate_new_version(call.current_version, call.bump_type, FALSE)
       /\ ret.kind = "return"
       /\ (call.current_version = V123 /\ call.bump_type = "patch")
              => ret.value = <<"1", ".", "2", ".", "4">>

\* every alpha bump of a progression keeps the bumped numbers and counts the
\* alpha number up from 1
AlphaBumpsCount ==
    (/\ call.op = "_calculate_new_version, repeated"
     /\ ~call.released
     /\ call.alpha_bumps > 0)
    => LET b == PlainBump(ParseVersion(call.current_version), call.bump_type)
       IN  ret = Returned(FormatAlpha(b[1], b[2], b[3], call.alpha_bumps))

\* C38 witness: 1.2.3+dev.1 after three alpha bumps of kind minor and a patch
\* bump without the alpha flag is 1.3.0
C38_Witness ==
    /\ call.op = "_calculate_new_version, repeated"
    /\ call.current_version = V123 \o BuildMeta
    /\ call.bump_type = "minor"
    /\ call.alpha_bumps = MaxAlphaBumps
    /\ call.released /\ call.release_type = "patch"
    /\ ret = Returned(<<"1", ".", "3", ".", "0">>)

\* a progression ended with a minor bump loses the patch number it reached:
\* 1.2.3 -> 1.2.4-alpha.1 -> 1.2.0
EndedWithMinor ==
    /\ call.op = "_calculate_new_version, repeated"
    /\ call.current_version = V123
    /\ call.bump_type = "patch"
    /\ call.released /\ call.release_type = "minor"
    /\ ret = Returned(<<"1", ".", "2", ".", "0">>)

-----------------------------------------------------------------------------
(* _is_version_compatible on every enumerated requirement and version *)

V100 == <<"1", ".", "0", ".", "0">>
V101 == <<"1", ".", "0", ".", "1">>
V120 == <<"1", ".", "2", ".", "0">>

\* ^X.Y.Z, ~X.Y.Z and X.Y.Z for the enumerated X.Y.Z, the requirements the
\* specification and the tests name, and requirements of other shapes
Requirements ==
    LET exact == {FormatRelease(a, b, c) : a \in Nums, b \in Nums, c \in Nums}
                 \cup {V120, <<"1", "0", ".", "0", ".", "0">>}
    IN  exact \cup {<<"^">> \o r : r \in exact} \cup {<<"~">> \o r : r \in exact}
        \cup {<<"*">>, <<"~", "1">>, <<">", "=", "1", ".", "0", ".", "0">>}

CompatVersions ==
    CanonicalVersions \cup {v \o BuildMeta : v \in CanonicalVersions}
    \cup { <<"1", ".", "5", ".", "0">>, <<"2", ".", "0", ".", "0">>,
           <<"1", ".", "2", ".", "9">>, <<"1", ".", "3", ".", "0">>,
           <<"1", "0", ".", "0", ".", "0">>, <<"1", "0", ".", "1", "0", ".", "0">> }

InitCompat ==
    /\ repositories = <<>>
    /\ InitWorld
    /\ \E o \in {"VersionManager._is_version_compatible",
                 "DependencyManager._is_version_compatible"},
          r \in Requirements, v \in CompatVersions :
           call = [op |-> o, requirement |-> r, version |-> v]
    /\ ret = NoRet
    /\ executor = Idle

VmIsVersionCompatible ==
    /\ call.op = "VersionManager._is_version_compatible"
    /\ ret.kind = "none"
    /\ ret' = Returned(vm_is_version_compatible(call.requirement, call.version))
    /\ UNCHANGED <<repositories, path_exists, world, environment, call, executor>>

DmIsVersionCompatible ==
    /\ call.op = "DependencyManager._is_version_compatible"
    /\ ret.kind = "none"
    /\ ret' = Returned(dm_is_version_compatible(call.requirement, call.version))
    /\ UNCHANGED <<repositories, path_exists, world, environment, call, executor>>

NextCompat == VmIsVersionCompatible \/ DmIsVersionCompatible

SpecCompat == InitCompat /\ [][NextCompat]_vars

\* s is X.Y.Z written without leading zeros, optionally followed by more
WellFormed(s) ==
    LET v == ParseVersion(s)
    IN  v.matched /\ StartsWith(s, FormatRelease(v.major, v.minor, v.patch))
HasPrefix(requirement, c) ==
    StartsWith(requirement, <<c>>) /\ WellFormed(Tail(requirement))
        /\ ~ParseVersion(Tail(requirement)).is_alpha

C7_ExactLiteral ==
    (/\ ret.kind # "none"
     /\ call.op = "VersionManager._is_version_compatible"
     /\ WellFormed(call.requirement)) =>
        (ret.value <=> call.requirement = call.version)

-----------------------------------------------------------------------------
(* _find_all_dependent_repositories on every enumerated configuration *)

\* three repositories a, b, c whose dependency lists name configured
\* repositories only
Configs ==
    LET deps == DistinctSeqs(Range(RepoNames), MaxDeps)
    IN  {[i \in 1..Len(RepoNames) |-> RepositoryConfig(RepoNames[i], RepoNames[i], d[i])] :
            d \in [1..Len(RepoNames) -> deps]}

\* the orders in which a set of names can be listed
Orderings(S) == {s \in [1..Cardinality(S) -> S] : Range(s) = S}

InitDependents ==
    /\ repositories \in Configs
    /\ path_exists \in [Range(RepoNames) -> BOOLEAN]
    /\ pyproject = [n \in Range(RepoNames) |-> NoFile]
    /\ git = [n \in Range(RepoNames) |-> NoGit]
    /\ version_history = <<>>
    /\ backup_dirs = 0
    /\ backups = <<>>
    /\ release_results = <<>>
    /\ results_log = <<>>
    /\ cmds = <<>>
    /\ environment = Calm
    /\ \E released \in SUBSET Range(RepoNames) \ {{}} :
           call = [op |-> "_find_all_dependent_repositories", released_repos |-> released]
    /\ ret = NoRet
    /\ executor = Idle

FindAllDependentRepositories ==
    /\ call.op = "_find_all_dependent_repositories"
    /\ ret.kind = "none"
    /\ \E roots \in Orderings(call.released_repos) :
           ret' = Returned(find_all_dependent_repositories(repositories, path_exists, roots))
    /\ UNCHANGED <<repositories, path_exists, world, environment, call, executor>>

NextDependents == FindAllDependentRepositories

SpecDependents == InitDependents /\ [][NextDependents]_vars

NoDuplicates(seq) == \A i, j \in 1..Len(seq) : i # j => seq[i] # seq[j]

\* n depends on a root through declared dependencies, and n and every
\* repository between n and the root has a directory and is no root
RECURSIVE LiveReach(_, _, _, _, _)
LiveReach(repos, exists, roots, n, k) ==
    /\ k > 0
    /\ n \in ConfiguredNames(repos)
    /\ n \notin roots
    /\ exists[n]
    /\ \E d \in Range(get_repository(repos, n).dependencies) :
           d \in roots \/ LiveReach(repos, exists, roots, d, k - 1)

\* C8 as stated: for every acyclic configuration and every set of released
\* roots, _find_all_dependent_repositories returns every repository that
\* directly or transitively depends on some root, each exactly once, and never
\* a root, also when an intermediate repository on a dependency path has no
\* directory on disk.
C8_AllDependents ==
    (ret.kind # "none" /\ ~Cyclic(repositories)) =>
        /\ NoDuplicates(ret.value)
        /\ Range(ret.value) =
               {n \in ConfiguredNames(repositories) \ call.released_repos :
                   \E r \in call.released_repos : DependsOn(repositories, n, r)}

\* C8 amended: for every acyclic configuration and every set of released
\* roots, _find_all_dependent_repositories returns, each exactly once and
\* never a root, exactly the repositories that have a directory on disk and
\* depend on some root directly or through repositories that all have a
\* directory on disk; a repository without a directory is not returned and
\* nothing is found through it.
C8_ExistingDependents ==
    (ret.kind # "none" /\ ~Cyclic(repositories)) =>
        /\ NoDuplicates(ret.value)
        /\ Range(ret.value) =
               {n \in ConfiguredNames(repositories) :
                   LiveReach(repositories, path_exists, call.released_repos, n,
                             Len(repositories))}

\* C8 witness: a -> b -> c, c released, b without a directory: a has one and
\* depends on c through b, and nothing is returned.
C8_Witness ==
    /\ repositories[1].dependencies = <<RepoB>>
    /\ repositories[2].dependencies = <<RepoC>>
    /\ repositories[3].dependencies = <<>>
    /\ path_exists = [n \in Range(RepoNames) |-> n # RepoB]
    /\ call.released_repos = {RepoC}
    /\ ret.kind = "return"
    /\ ret.value = <<>>

-----------------------------------------------------------------------------
(* The workspace operations on enumerated workspaces *)

\* a -> b -> c
Chain ==
    <<RepositoryConfig(RepoA, RepoA, <<RepoB>>),
      RepositoryConfig(RepoB, RepoB, <<RepoC>>),
      RepositoryConfig(RepoC, RepoC, <<>>)>>

\* a and b both depend on c, and a also depends on b
Diamond ==
    <<RepositoryConfig(RepoA, RepoA, <<RepoC, RepoB>>),
      RepositoryConfig(RepoB, RepoB, <<RepoC>>),
      RepositoryConfig(RepoC, RepoC, <<>>)>>

\* the same repositories published under package names p-a, p-b, p-c
Packaged(repos) ==
    [i \in 1..Len(repos) |-> [repos[i] EXCEPT !.package_name = <<"p", "-">> \o @]]

Caret100 == <<"^">> \o V100
V100rc1 == V100 \o <<"r", "c", "1">>

\* how a manifest writes its requirement on a managed dependency
RequirementStyles == {"str", "dict", "path", "table", "underscore"}
RequirementIn(style) ==
    IF style = "dict" THEN DictRequirement(Caret100, FALSE)
    ELSE IF style = "path" THEN DictRequirement(None, TRUE)
    ELSE IF style = "table" THEN DictRequirement(None, FALSE)
    ELSE StrRequirement(Caret100)

\* the manifests of a workspace: every repository with a directory and a
\* version other than NoVersionFile has a manifest with that version and a
\* requirement, in the given style, on the package of each configured
\* repository it declares as a dependency
NoVersionFile == <<"<no pyproject.toml>">>
Files(repos, exists, versions, style) ==
    [n \in ConfiguredNames(repos) |->
        IF ~exists[n] \/ versions[n] = NoVersionFile THEN NoFile
        ELSE LET deps == Range(get_repository(repos, n).dependencies)
                             \cap ConfiguredNames(repos)
                 key(d) == IF style = "underscore"
                           THEN Replace(get_repository(repos, d).package_name, "-", "_")
                           ELSE get_repository(repos, d).package_name
             IN  Manifest(versions[n],
                          [k \in {key(d) : d \in deps} |-> RequirementIn(style)])]

\* every repository with a directory has one commit, its manifest as it is
Committed(files, exists) ==
    [n \in DOMAIN files |->
        IF exists[n] THEN [commits |-> <<Commit(files[n], 0)>>, head |-> 1, tags |-> {}]
        ELSE NoGit]

AllExist == [n \in Range(RepoNames) |-> TRUE]
AllAt(v) == [n \in Range(RepoNames) |-> v]

BumpArgs(repository, bump_type, alpha, dry_run, update_dependents, dependents_bump, validate) ==
    [repository |-> repository, bump_type |-> bump_type, alpha |-> alpha,
     dry_run |-> dry_run, update_dependents |-> update_dependents,
     dependents_bump |-> dependents_bump, validate |-> validate]

\* the calm environment and every environment with one incident: `poetry
\* version` failing in one repository, `poetry lock` timing out in one, or
\* the tests of one not passing
Envs ==
    {Calm}
    \cup {[Calm EXCEPT !.version_fails = {n}] : n \in Range(RepoNames)}
    \cup {[Calm EXCEPT !.lock[n] = "timeout"] : n \in Range(RepoNames)}
    \cup {[Calm EXCEPT !.tests[n] = o] : n \in Range(RepoNames), o \in TestOutcomes}

Workspace(repos, exists, versions, style) ==
    /\ repositories = repos
    /\ path_exists = exists
    /\ pyproject = Files(repos, exists, versions, style)
    /\ git = Committed(pyproject, exists)
    /\ version_history = <<>>
    /\ backup_dirs = 0
    /\ backups = <<>>
    /\ release_results = <<>>
    /\ results_log = <<>>
    /\ cmds = <<>>

\* bump_version on every enumerated graph, all repositories at 1.0.0
InitBumpGraphs ==
    /\ \E repos \in Configs : Workspace(repos, AllExist, AllAt(V100), "str")
    /\ environment \in {e \in Envs : e.lock = Calm.lock /\ e.tests = Calm.tests}
    /\ \E n \in Range(RepoNames), a \in BOOLEAN :
           call = [op |-> "bump_version",
                   args |-> BumpArgs(n, "major", a, FALSE, TRUE, "patch", FALSE)]

\* the kind the dependents are bumped with in the enumerated calls
DependentsKind(kind) ==
    IF kind = "major" THEN "patch" ELSE IF kind = "minor" THEN "major" ELSE "minor"

\* bump_version with every combination of flags, in every environment, on the
\* chain and the diamond, with every directory present or b's missing
InitBumpCalls ==
    /\ \E repos \in {Chain, Diamond, Packaged(Chain)},
          exists \in {AllExist, [AllExist EXCEPT ![RepoB] = FALSE]} :
           Workspace(repos, exists, AllAt(V100), "str")
    /\ environment \in Envs
    /\ \E n \in Range(RepoNames) \cup {Unconfigured}, k \in BumpTypes, a \in BOOLEAN,
          d \in BOOLEAN, u \in BOOLEAN, v \in BOOLEAN :
           call = [op |-> "bump_version",
                   args |-> BumpArgs(n, k, a, d, u, DependentsKind(k), v)]

\* bump_version, for real and as a validated dry run, on the chain and the
\* diamond with every combination of versions and requirement styles
InitBumpFiles ==
    /\ \E repos \in {Chain, Diamond, Packaged(Diamond)},
          versions \in [Range(RepoNames) -> {V100, V124a1, V100rc1, None, NoVersionFile}],
          style \in RequirementStyles :
           Workspace(repos, AllExist, versions, style)
    /\ environment = Calm
    /\ \E n \in Range(RepoNames), a \in BOOLEAN, d \in BOOLEAN :
           call = [op |-> "bump_version",
                   args |-> BumpArgs(n, "patch", a, d, TRUE, "minor", d)]

\* the calm environment and every environment in which `poetry version` or
\* `git commit` fails in one repository
CascadeEnvs ==
    {Calm}
    \cup {[Calm EXCEPT !.version_fails = {n}] : n \in Range(RepoNames)}
    \cup {[Calm EXCEPT !.commit_fails = {n}] : n \in Range(RepoNames)}

\* the prod dependent pass on every enumerated graph after c, or b and c, were
\* released as 1.2.0 while every requirement still reads ^1.0.0
InitCascadeGraphs ==
    /\ \E repos \in Configs, released \in {<<RepoC>>, <<RepoB, RepoC>>} :
           /\ Workspace(repos, AllExist,
                        [n \in Range(RepoNames) |->
                            IF n \in Range(released) THEN V120 ELSE V100], "str")
           /\ call = [op |-> "_update_dependent_repositories", released |-> released]
    /\ environment = Calm

\* the prod dependent pass on the chain and the diamond for every released
\* set, requirement style and environment
InitCascadeCalls ==
    /\ \E repos \in {Chain, Diamond, Packaged(Diamond)},
          exists \in {AllExist, [AllExist EXCEPT ![RepoB] = FALSE]},
          vc \in {V120, V100, None},
          vb \in {V100, V124a1, V100rc1, NoVersionFile},
          style \in RequirementStyles :
           Workspace(repos, exists,
                     [n \in Range(RepoNames) |->
                         IF n = RepoC THEN vc ELSE IF n = RepoB THEN vb ELSE V100],
                     style)
    /\ environment \in CascadeEnvs
    /\ \E released \in {<<RepoC>>, <<RepoC, RepoB>>, <<RepoB>>, <<RepoA>>} :
           call = [op |-> "_update_dependent_repositories", released |-> released]

SyncArgs(dry_run, force, confirm) ==
    [dry_run |-> dry_run, force |-> force, confirm |-> confirm]

\* a forced sync on every enumerated graph with c at 1.2.0 and every
\* requirement reading ^1.0.0
InitSyncGraphs ==
    /\ \E repos \in Configs :
           Workspace(repos, AllExist,
                     [n \in Range(RepoNames) |-> IF n = RepoC THEN V120 ELSE V100],
                     "str")
    /\ environment = Calm
    /\ call = [op |-> "sync_dependency_versions", args |-> SyncArgs(FALSE, TRUE, FALSE)]

\* sync with every combination of flags and answers on the chain and the diamond
InitSyncCalls ==
    /\ \E repos \in {Chain, Diamond, Packaged(Chain)},
          exists \in {AllExist, [AllExist EXCEPT ![RepoB] = FALSE]},
          vc \in {V120, V100, None},
          vb \in {V100, V120},
          style \in RequirementStyles :
           Workspace(repos, exists,
                     [n \in Range(RepoNames) |->
                         IF n = RepoC THEN vc ELSE IF n = RepoB THEN vb ELSE V100],
                     style)
    /\ environment \in {Calm} \cup {[Calm EXCEPT !.lock[n] = "timeout"] : n \in Range(RepoNames)}
    /\ \E d \in BOOLEAN, f \in BOOLEAN, c \in BOOLEAN :
           call = [op |-> "sync_dependency_versions", args |-> SyncArgs(d, f, c)]

V200 == <<"2", ".", "0", ".", "0">>

ReleaseArgs(stage, names, version, repository_versions, dry_run, skip_tests, force, parallel) ==
    [stage |-> stage, repositories |-> names, version |-> version,
     repository_versions |-> repository_versions, dry_run |-> dry_run,
     skip_tests |-> skip_tests, force |-> force, parallel |-> parallel]

\* repository_versions naming no repository
NoVersions == [n \in {} |-> None]

\* the workspace with c's HEAD already tagged v1.2.0
Tagged(g) == [g EXCEPT ![RepoC].tags = {[tag |-> TagOf(V120), commit |-> 1]}]

\* a release of all repositories as 1.2.0 on every enumerated graph
InitReleaseGraphs ==
    /\ \E repos \in Configs : Workspace(repos, AllExist, AllAt(V100), "str")
    /\ environment = Calm
    /\ \E stage \in {"dev", "prod"}, d \in BOOLEAN :
           call = [op |-> "create_release",
                   args |-> ReleaseArgs(stage, <<>>, V120, NoVersions,
                                        d, FALSE, FALSE, FALSE)]

\* create_release with every combination of arguments on the chain and the
\* diamond, every directory present or b's missing, c tagged v1.2.0 or not
InitReleaseCalls ==
    /\ \E repos \in {Chain, Diamond},
          exists \in {AllExist, [AllExist EXCEPT ![RepoB] = FALSE]},
          tagged \in BOOLEAN :
           /\ repositories = repos
           /\ path_exists = exists
           /\ pyproject = Files(repos, exists, AllAt(V100), "str")
           /\ git = IF tagged THEN Tagged(Committed(pyproject, exists))
                    ELSE Committed(pyproject, exists)
           /\ version_history = <<>>
           /\ backup_dirs = 0
           /\ backups = <<>>
           /\ release_results = <<>>
           /\ results_log = <<>>
           /\ cmds = <<>>
    /\ environment = Calm
    /\ \E stage \in Stages \cup {"beta"},
          names \in {<<>>, <<RepoC>>, <<RepoB, RepoC>>, <<Unconfigured>>,
                    <<RepoC, Unconfigured>>},
          version \in {None, V120},
          versions \in {NoVersions, [n \in {RepoC} |-> V200], [n \in {RepoA} |-> V200]},
          d \in BOOLEAN, s \in BOOLEAN, f \in BOOLEAN, p \in BOOLEAN :
           call = [op |-> "create_release",
                   args |-> ReleaseArgs(stage, names, version, versions, d, s, f, p)]

\* the calm environment and every environment with one incident during a
\* release: `poetry version` failing, `poetry lock` failing or timing out with
\* the regeneration working or not, the lock file changing, the tests not
\* passing, or `git commit`, `git tag`, `git push` or `git reset` failing, in
\* one repository
ReleaseEnvs ==
    {Calm}
    \cup {[Calm EXCEPT !.version_fails = {n}] : n \in Range(RepoNames)}
    \cup {[Calm EXCEPT !.lock[n] = o] : n \in Range(RepoNames), o \in {"fail", "timeout"}}
    \cup {[Calm EXCEPT !.lock[n] = l, !.regenerate[n] = o] :
              n \in Range(RepoNames), l \in {"fail", "timeout"}, o \in {"fail", "timeout"}}
    \cup {[Calm EXCEPT !.lock_changes = {n}] : n \in Range(RepoNames)}
    \cup {[Calm EXCEPT !.tests[n] = o] : n \in Range(RepoNames), o \in TestOutcomes}
    \cup {[Calm EXCEPT !.commit_fails = {n}] : n \in Range(RepoNames)}
    \cup {[Calm EXCEPT !.tag_fails = {n}] : n \in Range(RepoNames)}
    \cup {[Calm EXCEPT !.push_fails = {n}] : n \in Range(RepoNames)}
    \cup {[Calm EXCEPT !.commit_fails = {m}, !.reset_fails = {n}] :
              m \in Range(RepoNames), n \in Range(RepoNames)}
    \cup {[Calm EXCEPT !.copy_fails = {n}] : n \in Range(RepoNames)}

\* a release of all repositories in every release environment
InitReleaseEnvs ==
    /\ \E repos \in {Chain, Diamond} : Workspace(repos, AllExist, AllAt(V100), "str")
    /\ environment \in ReleaseEnvs
    /\ \E stage \in Stages, version \in {None, V120}, f \in BOOLEAN :
           call = [op |-> "create_release",
                   args |-> ReleaseArgs(stage, <<>>, version, NoVersions,
                                        FALSE, FALSE, f, FALSE)]

\* a release run again: c is at 1.2.0 with its HEAD tagged v1.2.0, every
\* requirement still reads ^1.0.0
InitReleaseRerun ==
    /\ \E repos \in {Chain, Diamond} :
           /\ repositories = repos
           /\ path_exists = AllExist
           /\ pyproject = Files(repos, AllExist,
                                [n \in Range(RepoNames) |->
                                    IF n = RepoC THEN V120 ELSE V100], "str")
           /\ git = Tagged(Committed(pyproject, AllExist))
           /\ version_history = <<>>
           /\ backup_dirs = 0
           /\ backups = <<>>
           /\ release_results = <<>>
           /\ results_log = <<>>
           /\ cmds = <<>>
    /\ environment \in ReleaseEnvs
    /\ \E stage \in {"prod", "rc"}, names \in {<<>>, <<RepoC>>}, f \in BOOLEAN :
           call = [op |-> "create_release",
                   args |-> ReleaseArgs(stage, names, None, NoVersions,
                                        FALSE, FALSE, f, FALSE)]

\* a release on the chain and the diamond with every combination of readable
\* and unreadable versions, with and without overrides
InitReleaseFiles ==
    /\ \E repos \in {Chain, Diamond},
          versions \in [Range(RepoNames) -> {V100, None, NoVersionFile}] :
           Workspace(repos, AllExist, versions, "str")
    /\ environment = Calm
    /\ \E stage \in Stages, version \in {None, V120},
          versions \in {NoVersions, [n \in {RepoC} |-> V200]},
          f \in BOOLEAN, p \in BOOLEAN :
           call = [op |-> "create_release",
                   args |-> ReleaseArgs(stage, <<>>, version, versions,
                                        FALSE, FALSE, f, p)]

\* three repositories that declare no dependencies
Independent ==
    <<RepositoryConfig(RepoA, RepoA, <<>>),
      RepositoryConfig(RepoB, RepoB, <<>>),
      RepositoryConfig(RepoC, RepoC, <<>>)>>

\* a workspace committed with every repository at 1.0.0, in which the
\* manifests of the repositories in dirty were then edited to 1.0.1 and left
\* uncommitted
DirtyWorkspace(repos, exists, dirty) ==
    /\ repositories = repos
    /\ path_exists = exists
    /\ git = Committed(Files(repos, exists, AllAt(V100), "str"), exists)
    /\ pyproject = Files(repos, exists,
                         [n \in Range(RepoNames) |-> IF n \in dirty THEN V101 ELSE V100],
                         "str")
    /\ version_history = <<>>
    /\ backup_dirs = 0
    /\ backups = <<>>
    /\ release_results = <<>>
    /\ results_log = <<>>
    /\ cmds = <<>>

\* _create_backups followed at once by _rollback_release, in every release
\* environment, with clean and with edited manifests
InitRollbackCalls ==
    /\ \E repos \in {Chain, Diamond, Independent},
          exists \in {AllExist, [AllExist EXCEPT ![RepoB] = FALSE]},
          dirty \in SUBSET Range(RepoNames) :
           DirtyWorkspace(repos, exists, dirty)
    /\ environment \in ReleaseEnvs
    /\ call = [op |-> "_create_backups, _rollback_release"]

\* _create_backups followed at once by _rollback_release where b is no git
\* repository (`git rev-parse HEAD` fails in it) or one manifest is unreadable
InitBackupFaults ==
    /\ \E repos \in {Chain, Diamond}, bare \in BOOLEAN :
           /\ repositories = repos
           /\ path_exists = AllExist
           /\ pyproject = Files(repos, AllExist, AllAt(V100), "str")
           /\ git = IF bare
                    THEN [Committed(pyproject, AllExist) EXCEPT ![RepoB] = NoGit]
                    ELSE Committed(pyproject, AllExist)
           /\ version_history = <<>>
           /\ backup_dirs = 0
           /\ backups = <<>>
           /\ release_results = <<>>
           /\ results_log = <<>>
           /\ cmds = <<>>
    /\ environment \in {Calm} \cup {[Calm EXCEPT !.copy_fails = {n}] : n \in Range(RepoNames)}
    /\ call = [op |-> "_create_backups, _rollback_release"]

\* how the tags of a repository lie before a run: none; v1.0.0 on HEAD; v1.2.0
\* on HEAD; v0.9.0 on a commit of another branch that HEAD does not descend
\* from
TagLayouts == {"none", "head", "same", "side"}
V090 == <<"0", ".", "9", ".", "0">>
LaidOut(g, layout) ==
    IF layout = "head" THEN [g EXCEPT !.tags = {[tag |-> TagOf(V100), commit |-> 1]}]
    ELSE IF layout = "same" THEN [g EXCEPT !.tags = {[tag |-> TagOf(V120), commit |-> 1]}]
    ELSE IF layout = "side"
    THEN [g EXCEPT !.commits = Append(@, Commit(g.commits[1].manifest, 1)),
                   !.tags = {[tag |-> TagOf(V090), commit |-> 2]}]
    ELSE g

\* one repository released as 1.2.0 and tagged between _create_backups and
\* _rollback_release, for every layout of its tags
InitRollbackTags ==
    /\ \E repos \in {Chain, Diamond}, n \in Range(RepoNames), layout \in TagLayouts :
           /\ repositories = repos
           /\ path_exists = AllExist
           /\ pyproject = Files(repos, AllExist, AllAt(V100), "str")
           /\ git = [Committed(pyproject, AllExist) EXCEPT ![n] = LaidOut(@, layout)]
           /\ version_history = <<>>
           /\ backup_dirs = 0
           /\ backups = <<>>
           /\ release_results = <<>>
           /\ results_log = <<>>
           /\ cmds = <<>>
           /\ call = [op |-> "_create_backups, _tag_release, _rollback_release",
                      repository |-> n, version |-> V120]
           /\ environment \in {Calm,
                                [Calm EXCEPT !.tag_fails = {n}],
                                [Calm EXCEPT !.push_fails = {n}],
                                [Calm EXCEPT !.reset_fails = {n}],
                                [Calm EXCEPT !.tests[n] = "fail"]}

\* a release started on edited, uncommitted manifests
InitReleaseDirty ==
    /\ \E repos \in {Chain, Diamond}, dirty \in SUBSET Range(RepoNames) \ {{}} :
           DirtyWorkspace(repos, AllExist, dirty)
    /\ environment \in {Calm}
           \cup {[Calm EXCEPT !.tests[n] = "fail"] : n \in Range(RepoNames)}
           \cup {[Calm EXCEPT !.commit_fails = {n}] : n \in Range(RepoNames)}
    /\ \E stage \in Stages, version \in {None, V120}, f \in BOOLEAN :
           call = [op |-> "create_release",
                   args |-> ReleaseArgs(stage, <<>>, version, NoVersions,
                                        FALSE, FALSE, f, FALSE)]

\* a parallel release with the workers completing in every order
InitReleaseParallel ==
    /\ \E repos \in {Independent, Chain, Diamond} :
           Workspace(repos, AllExist, AllAt(V100), "str")
    /\ \E schedule \in Orderings(Range(RepoNames)),
          e \in {Calm} \cup {[Calm EXCEPT !.version_fails = {n}] : n \in Range(RepoNames)} :
           environment = [e EXCEPT !.schedule = schedule]
    /\ \E stage \in {"dev", "rc"}, names \in {<<>>, <<RepoB, RepoA>>}, f \in BOOLEAN :
           call = [op |-> "create_release",
                   args |-> ReleaseArgs(stage, names, None, NoVersions,
                                        FALSE, FALSE, f, TRUE)]

Init ==
    /\ \/ InitBumpGraphs \/ InitBumpCalls \/ InitBumpFiles
       \/ InitCascadeGraphs \/ InitCascadeCalls
       \/ InitSyncGraphs \/ InitSyncCalls
       \/ InitReleaseGraphs \/ InitReleaseCalls
       \/ InitReleaseEnvs \/ InitReleaseParallel \/ InitReleaseRerun
       \/ InitReleaseFiles \/ InitReleaseDirty \/ InitRollbackCalls
       \/ InitBackupFaults \/ InitRollbackTags
    /\ ret = NoRet
    /\ executor = Idle

SetWorld(w) ==
    /\ pyproject' = w.pyproject
    /\ git' = w.git
    /\ version_history' = w.version_history
    /\ backup_dirs' = w.backup_dirs
    /\ backups' = w.backups
    /\ release_results' = w.release_results
    /\ results_log' = w.results_log
    /\ cmds' = w.cmds

BumpVersion ==
    /\ call.op = "bump_version"
    /\ ret.kind = "none"
    /\ \E r \in {bump_version(World, environment, repositories, path_exists, call.args)} :
           SetWorld(r.w) /\ ret' = r.ret
    /\ UNCHANGED <<repositories, path_exists, environment, call, executor>>

UpdateDependentRepositories ==
    /\ call.op = "_update_dependent_repositories"
    /\ ret.kind = "none"
    /\ \E r \in {update_dependent_repositories(World, environment, repositories,
                                              path_exists, call.released)} :
           SetWorld(r.w) /\ ret' = r.ret
    /\ UNCHANGED <<repositories, path_exists, environment, call, executor>>

SyncDependencyVersions ==
    /\ call.op = "sync_dependency_versions"
    /\ ret.kind = "none"
    /\ \E r \in {sync_dependency_versions(World, environment, repositories,
                                         path_exists, call.args)} :
           SetWorld(r.w) /\ ret' = r.ret
    /\ UNCHANGED <<repositories, path_exists, environment, call, executor>>

CreateRelease ==
    /\ call.op = "create_release"
    /\ ret.kind = "none"
    /\ \E r \in {create_release(World, environment, repositories, path_exists, call.args)} :
           SetWorld(r.w) /\ ret' = r.ret
    /\ UNCHANGED <<repositories, path_exists, environment, call, executor>>

CreateBackupsRollbackRelease ==
    /\ call.op = "_create_backups, _rollback_release"
    /\ ret.kind = "none"
    /\ \E r \in {backup_and_rollback(World, environment, repositories, path_exists)} :
           SetWorld(r.w) /\ ret' = r.ret
    /\ UNCHANGED <<repositories, path_exists, environment, call, executor>>

CreateBackupsTagReleaseRollbackRelease ==
    /\ call.op = "_create_backups, _tag_release, _rollback_release"
    /\ ret.kind = "none"
    /\ \E r \in {release_tag_and_rollback(World, environment, repositories, path_exists,
                                          call.repository, call.version)} :
           SetWorld(r.w) /\ ret' = r.ret
    /\ UNCHANGED <<repositories, path_exists, environment, call, executor>>

Next ==
    \/ BumpVersion
    \/ UpdateDependentRepositories
    \/ SyncDependencyVersions
    \/ CreateRelease
    \/ CreateBackupsRollbackRelease
    \/ CreateBackupsTagReleaseRollbackRelease

Spec == Init /\ [][Next]_vars

V101a1 == <<"1", ".", "0", ".", "1", "-", "a", "l", "p", "h", "a", ".", "1">>

\* C3: on a cyclic configuration every graph-consuming operation
\* (create_release, bump_version with update_dependents,
\* sync_dependency_versions) fails with the cycle error before touching any
\* file: it raises the ValueError of get_dependency_order and leaves
\* manifests, git, the ledger, the backups and the list of issued commands
\* as they were.
C3_CycleFailsFirst ==
    [][(/\ Cyclic(repositories)
        /\ \/ call.op = "create_release"
           \/ call.op = "sync_dependency_versions"
           \/ call.op = "bump_version" /\ call.args.update_dependents)
       => (ret'.kind = "ValueError" /\ UNCHANGED world)]_vars

\* create_release does raise the cycle error before any manifest, repository
\* or command is touched, but after the backup folder of a run that is not a
\* dry run was written
ReleaseCycleRaises ==
    [][(Cyclic(repositories) /\ call.op = "create_release")
       => /\ ret'.kind = "ValueError"
          /\ UNCHANGED <<pyproject, git, version_history, release_results, cmds>>
          /\ backup_dirs' = IF call.args.dry_run THEN backup_dirs ELSE backup_dirs + 1]_vars

\* sync_dependency_versions alone does fail that way: get_dependency_order
\* runs before any requirement is rewritten
SyncCycleFailsFirst ==
    [][(Cyclic(repositories) /\ call.op = "sync_dependency_versions")
       => (ret'.kind = "ValueError" /\ UNCHANGED world)]_vars

\* the successful `poetry version` commands of the running operation that set
\* the version of repository n
VersionSets(n) ==
    {i \in DOMAIN cmds : /\ cmds[i].cmd = "poetry version"
                         /\ cmds[i].repo = n
                         /\ n \notin environment.version_fails}

\* C9: in one cascade (one bump_version call with update_dependents, or one
\* prod dependent-update pass) no repository has its version set more than once.
C9_SetOnce ==
    (\/ call.op = "_update_dependent_repositories"
     \/ call.op = "bump_version" /\ call.args.update_dependents)
    => \A n \in Range(RepoNames) : Cardinality(VersionSets(n)) <= 1

\* on the acyclic configurations, the diamond among them, no cascade sets a
\* version twice
SetOnceWhenAcyclic == ~Cyclic(repositories) => C9_SetOnce

\* C10: on the chain a -> b -> c, all at 1.0.0, bump_version("c", "major",
\* alpha=false, update_dependents=true, dependents_bump="patch") ends with c at
\* 2.0.0, b at 1.0.1-alpha.1 and a at 1.0.1-alpha.1.
C10_ChainCascade ==
    [][(/\ repositories = Chain
        /\ path_exists = AllExist
        /\ environment = Calm
        /\ pyproject = Files(Chain, AllExist, AllAt(V100), "str")
        /\ call.op = "bump_version"
        /\ call.args = BumpArgs(RepoC, "major", FALSE, FALSE, TRUE, "patch", FALSE))
       => (/\ pyproject'[RepoC].version = V200
           /\ pyproject'[RepoB].version = V101a1
           /\ pyproject'[RepoA].version = V101a1)]_vars

\* what the code does on that call: c is set to 2.0.0, the direct dependent b
\* gets the plain patch bump 1.0.1, and a, which has no requirement on c, stays
\* at 1.0.0
ChainDirectOnly ==
    [][(/\ repositories = Chain
        /\ path_exists = AllExist
        /\ environment = Calm
        /\ pyproject = Files(Chain, AllExist, AllAt(V100), "str")
        /\ call.op = "bump_version"
        /\ call.args = BumpArgs(RepoC, "major", FALSE, FALSE, TRUE, "patch", FALSE))
       => (/\ ret'.value = TRUE
           /\ pyproject'[RepoC].version = V200
           /\ pyproject'[RepoB].version = V101
           /\ pyproject'[RepoA].version = V100)]_vars

\* a version _calculate_new_version can parse
Parseable(version) == ParseVersion(version).matched

\* the repository bump_version is called on exists and has a parseable version
BumpTargetParseable ==
    /\ call.op = "bump_version"
    /\ HasRepository(repositories, call.args.repository)
    /\ path_exists[call.args.repository]
    /\ ~Falsy(get_current_version(pyproject, call.args.repository))
    /\ Parseable(get_current_version(pyproject, call.args.repository))

\* the dependents a dry run reports on all have a version that is missing or
\* parseable
DependentsParseable ==
    call.args.update_dependents =>
        \A n \in Range(get_dependent_repositories(repositories, call.args.repository)) :
            \/ Falsy(get_current_version(pyproject, n))
            \/ Parseable(get_current_version(pyproject, n))

\* C11: bump_version with dry_run on an existing repository with a parseable
\* version returns True and changes nothing (no version set, no requirement
\* rewritten, no command issued, no ledger entry), whatever update_dependents
\* and validate are.
C11_DryRunBump ==
    [][(BumpTargetParseable /\ call.args.dry_run)
       => (ret' = Returned(TRUE) /\ UNCHANGED world)]_vars

\* C11 as the code has it: the dry run changes nothing in any case, and
\* returns True when, besides, every dependent it reports on has a version
\* that is missing or parseable.
C11_DryRunBumpParseable ==
    [][(call.op = "bump_version" /\ call.args.dry_run)
       => /\ UNCHANGED world
          /\ (BumpTargetParseable /\ DependentsParseable) => ret' = Returned(TRUE)]_vars

\* a dry run with update_dependents and validate that reported on a dependent
\* and returned True
C11_Witness ==
    /\ call.op = "bump_version"
    /\ call.args.dry_run /\ call.args.update_dependents /\ call.args.validate
    /\ get_dependent_repositories(repositories, call.args.repository) # <<>>
    /\ ret = Returned(TRUE)
    /\ cmds = <<>>

\* C12: create_release with dry_run, in every stage and in sequential and
\* parallel mode alike, sets no version, issues no lock, test, commit, tag or
\* push command, creates no backup, updates no dependent, and rolls nothing
\* back: manifests, repositories, ledger, backups and the list of issued
\* commands stay as they were and no repository is marked rolled back.
C12_DryRunRelease ==
    [][(call.op = "create_release" /\ call.args.dry_run)
       => /\ UNCHANGED <<pyproject, git, version_history, backup_dirs, backups, cmds>>
          /\ \A n \in DOMAIN release_results' : release_results'[n] # "rolled_back"]_vars

\* a dry prod release that went through its repositories and succeeded
C12_Witness ==
    /\ call.op = "create_release"
    /\ call.args.dry_run
    /\ call.args.stage = "prod"
    /\ ret = Returned(TRUE)
    /\ RepoC \in DOMAIN release_results
    /\ release_results[RepoC] = "success"
    /\ backup_dirs = 0

\* a dry release that failed, in parallel mode
DryRunFailedParallel ==
    /\ call.op = "create_release"
    /\ call.args.dry_run /\ call.args.parallel /\ call.args.stage = "dev"
    /\ ret = Returned(FALSE)
    /\ release_results # <<>>

\* the repositories a create_release call is about
Targets ==
    IF call.args.repositories # <<>> THEN call.args.repositories
    ELSE NamesOf(repositories)

\* a requested name that is not configured
UnknownTarget ==
    \E i \in DOMAIN call.args.repositories :
        ~HasRepository(repositories, call.args.repositories[i])

\* a key of repository_versions outside the target set
StrayVersion ==
    \E n \in DOMAIN call.args.repository_versions : n \notin Range(Targets)

\* C13: create_release fails before any mutation (no backup, no repository
\* processed) when a requested repository name is not configured or a key of
\* repository_versions is not in the target set: it returns False, or raises
\* the ValueError of an invalid stage, and the world is as it was.
C13_BadTargetsFailFirst ==
    [][(call.op = "create_release" /\ (UnknownTarget \/ StrayVersion))
       => /\ UNCHANGED world
          /\ ret' # Returned(TRUE)
          /\ call.args.stage \in Stages => ret' = Returned(FALSE)]_vars

\* a release that is not a dry run, refused for a stray key of
\* repository_versions, with no backup taken
C13_Witness ==
    /\ call.op = "create_release"
    /\ ~call.args.dry_run
    /\ ~UnknownTarget /\ StrayVersion
    /\ ret = Returned(FALSE)
    /\ backup_dirs = 0 /\ cmds = <<>> /\ release_results = <<>>

\* the same for a requested name that is not configured, after one that is
UnknownTargetRefused ==
    /\ call.op = "create_release"
    /\ ~call.args.dry_run
    /\ call.args.repositories = <<RepoC, Unconfigured>>
    /\ ret = Returned(FALSE)
    /\ backup_dirs = 0 /\ cmds = <<>> /\ release_results = <<>>

\* the version a prod release gives repository n, None when there is none
ProdVersion(n) ==
    IF ~Falsy(repo_version(call.args, n)) THEN repo_version(call.args, n)
    ELSE get_current_version(pyproject, n)

\* repository n is a target whose prod version is already tagged
AlreadyReleased(n) ==
    /\ n \in Range(Targets)
    /\ HasRepository(repositories, n)
    /\ path_exists[n]
    /\ ~Falsy(ProdVersion(n))
    /\ HasTag(git[n], TagOf(ProdVersion(n)))

\* the commands of one kind the operation issued in repository n
Issued(log, kind, n) == {i \in DOMAIN log : log[i].cmd = kind /\ log[i].repo = n}

\* the tags of a repository that carry a name
TagsNamed(g, tag) == {t \in g.tags : t.tag = tag}

\* C14: in a prod release that is not a dry run, a target repository whose
\* version tag already exists is passed over as a success: no `poetry
\* version` and no `git commit` is issued in it, no second tag of that name is
\* created, and it is never recorded as failed - it is recorded as succeeded
\* whenever the release returns True.
C14_AlreadyReleased ==
    [][(call.op = "create_release" /\ call.args.stage = "prod" /\ ~call.args.dry_run)
       => \A n \in Range(RepoNames) :
              AlreadyReleased(n)
              => /\ Issued(cmds', "poetry version", n) = {}
                 /\ Issued(cmds', "git commit", n) = {}
                 /\ TagsNamed(git'[n], TagOf(ProdVersion(n)))
                        = TagsNamed(git[n], TagOf(ProdVersion(n)))
                 /\ n \in DOMAIN release_results' => release_results'[n] # "failed"
                 /\ ret' = Returned(TRUE)
                        => (n \in DOMAIN release_results'
                            /\ release_results'[n] = "success")]_vars

\* a prod release of c alone, at 1.2.0 and tagged v1.2.0, run again: it
\* returned True with c recorded as succeeded and no version set in c
C14_Witness ==
    /\ call.op = "create_release"
    /\ call.args.stage = "prod" /\ ~call.args.dry_run
    /\ call.args.repositories = <<RepoC>>
    /\ pyproject[RepoC].version = V120
    /\ HasTag(git[RepoC], TagOf(V120))
    /\ Issued(cmds, "poetry version", RepoC) = {}
    /\ RepoC \in DOMAIN release_results
    /\ release_results[RepoC] = "success"
    /\ ret = Returned(TRUE)

\* the base of repository n's release version: its own override, else the
\* default override, else the version its manifest holds
Base(n) ==
    IF n \in DOMAIN call.args.repository_versions THEN call.args.repository_versions[n]
    ELSE IF call.args.version # None THEN call.args.version
    ELSE get_current_version(pyproject, n)

\* the version a stage makes of a base
StageVersion(stage, base) ==
    IF stage = "dev" THEN base \o <<"+", "d", "e", "v", ".">> \o Timestamp
    ELSE IF stage = "rc" THEN base \o <<"r", "c", "1">>
    ELSE base

\* C15: every version create_release sets in a target repository is the stage
\* version of the repository's base (dev: base+"+dev."+timestamp, rc:
\* base+"rc1", prod: base), and a repository released as succeeded holds it;
\* a target with no override whose current version cannot be read has no
\* version set, is not recorded as succeeded, and makes an unforced release
\* fail.
C15_StageVersion ==
    [][call.op = "create_release"
       => \A n \in Range(Targets) \cap ConfiguredNames(repositories) :
              /\ \A i \in Issued(cmds', "poetry version", n) :
                     cmds'[i].arg = StageVersion(call.args.stage, Base(n))
              /\ (/\ ret' = Returned(TRUE)
                  /\ ~call.args.dry_run
                  /\ n \in DOMAIN release_results'
                  /\ release_results'[n] = "success"
                  /\ ~(call.args.stage = "prod" /\ AlreadyReleased(n)))
                     => pyproject'[n].version = StageVersion(call.args.stage, Base(n))
              /\ Falsy(Base(n))
                     => /\ Issued(cmds', "poetry version", n) = {}
                        /\ n \in DOMAIN release_results'
                               => release_results'[n] # "success"
                        /\ ~call.args.force => ret' # Returned(TRUE)]_vars

\* an rc release of all repositories with the default override 1.2.0 and the
\* override 2.0.0 for c: c holds 2.0.0rc1, b holds 1.2.0rc1
C15_Witness ==
    /\ call.op = "create_release"
    /\ call.args.stage = "rc"
    /\ call.args.version = V120
    /\ RepoC \in DOMAIN call.args.repository_versions
    /\ ret = Returned(TRUE)
    /\ pyproject[RepoC].version = V200 \o <<"r", "c", "1">>
    /\ pyproject[RepoB].version = V120 \o <<"r", "c", "1">>

\* a dev release from the manifest's version
DevFromManifest ==
    /\ call.op = "create_release"
    /\ call.args.stage = "dev"
    /\ call.args.version = None
    /\ ret = Returned(TRUE)
    /\ pyproject[RepoC].version = V100 \o <<"+", "d", "e", "v", ".">> \o Timestamp

\* a forced release that went on past a repository without a readable version
UnreadableVersionFailed ==
    /\ call.op = "create_release"
    /\ call.args.force /\ call.args.version = None
    /\ call.args.repository_versions = <<>>
    /\ pyproject[RepoC].version = None
    /\ RepoC \in DOMAIN release_results
    /\ release_results[RepoC] = "failed"
    /\ Issued(cmds, "poetry version", RepoC) = {}
    /\ ret = Returned(TRUE)

\* a create_release call that gets as far as processing repositories
WellTargeted ==
    /\ call.op = "create_release"
    /\ call.args.stage \in Stages
    /\ ~UnknownTarget /\ ~StrayVersion
    /\ call.args.dry_run
           \/ ~create_backups(World, environment, repositories, path_exists).raised
    /\ ~Cyclic(repositories)

\* the call processes its repositories one after the other
Sequential == ~(call.args.parallel /\ call.args.stage = "dev")

\* the order in which a sequential release processes its targets
ReleaseOrder ==
    LET released(n) == n \in Range(Targets)
    IN  SelectSeq(get_dependency_order(repositories).result, released)

\* repository n cannot be released in this run: its directory is missing,
\* it has no base version, or one of its release steps is bound to fail
FailsToRelease(n) ==
    \/ ~path_exists[n]
    \/ Falsy(Base(n))
    \/ /\ ~call.args.dry_run
       /\ ~(call.args.stage = "prod" /\ AlreadyReleased(n))
       /\ \/ n \in environment.version_fails
          \/ ~pyproject[n].exists
          \/ environment.lock[n] # "ok" /\ environment.regenerate[n] # "ok"
          \/ ~call.args.skip_tests /\ environment.tests[n] # "pass"
          \/ n \in environment.commit_fails

\* no release step was taken in repository n and no outcome recorded for it
NotProcessed(n) ==
    /\ Issued(cmds', "poetry version", n) = {}
    /\ Issued(cmds', "pytest", n) = {}
    /\ Issued(cmds', "git commit", n) = {}
    /\ n \in DOMAIN release_results' => release_results'[n] \notin {"success", "failed"}

\* C16: in sequential mode without force, once a repository fails no
\* repository later in the processing order is processed and the release
\* returns False; with force every repository of the order is processed to
\* an outcome, and a repository that fails is recorded as failed.
C16_SequentialAbort ==
    [][(WellTargeted /\ Sequential)
       => /\ ~call.args.force
              => \A k \in DOMAIN ReleaseOrder :
                     FailsToRelease(ReleaseOrder[k])
                     => /\ ret' = Returned(FALSE)
                        /\ \A j \in (k + 1)..Len(ReleaseOrder) :
                               NotProcessed(ReleaseOrder[j])
          /\ call.args.force
              => \A k \in DOMAIN ReleaseOrder :
                     /\ ReleaseOrder[k] \in DOMAIN release_results'
                     /\ release_results'[ReleaseOrder[k]] \in {"success", "failed"}
                     /\ FailsToRelease(ReleaseOrder[k])
                            => release_results'[ReleaseOrder[k]] = "failed"]_vars

\* an unforced release of the chain in which `poetry version` fails in b: c
\* was processed before it, a was not processed after it
C16_Witness ==
    /\ call.op = "create_release"
    /\ ~call.args.force /\ ~call.args.dry_run
    /\ repositories = Chain
    /\ call.args.repositories = <<>>
    /\ environment.version_fails = {RepoB}
    /\ Issued(cmds, "poetry version", RepoC) # {}
    /\ Issued(cmds, "poetry version", RepoB) # {}
    /\ Issued(cmds, "poetry version", RepoA) = {}
    /\ ret = Returned(FALSE)

\* the forced release in the same environment: a was processed after b failed
ForcedGoesOn ==
    /\ call.op = "create_release"
    /\ call.args.force /\ ~call.args.dry_run
    /\ repositories = Chain
    /\ call.args.repositories = <<>>
    /\ environment.version_fails = {RepoB}
    /\ release_results = [n \in Range(RepoNames) |->
                             IF n = RepoB THEN "failed" ELSE "success"]

\* the run created no tag
NoTagCreated == \A n \in DOMAIN git : git'[n].tags \subseteq git[n].tags

\* the run updated no dependent: outside the targets no version was set,
\* nothing committed and no manifest changed
NoCascade ==
    \A n \in ConfiguredNames(repositories) \ Range(Targets) :
        /\ Issued(cmds', "poetry version", n) = {}
        /\ Issued(cmds', "git commit", n) = {}
        /\ pyproject'[n] = pyproject[n]

\* some target of the run cannot be released
SomeTargetFails == \E n \in Range(Targets) : FailsToRelease(n)

\* C17: a release tag is created only in a prod run in which every target
\* was released and the dependent cascade succeeded: dev and rc runs create
\* no tag, and a prod run in which a target fails, continued with force or
\* not, creates no tag and updates no dependent.
C17_TagsOnlyAfterSuccess ==
    [][(WellTargeted /\ (call.args.stage # "prod" \/ SomeTargetFails))
       => (NoTagCreated /\ NoCascade)]_vars

\* the same without the forced runs: these create no tag and update no
\* dependent
TagsOnlyUnforced ==
    [][(WellTargeted /\ (call.args.stage # "prod"
                         \/ (SomeTargetFails /\ ~call.args.force)))
       => (NoTagCreated /\ NoCascade)]_vars

\* a tag is only ever created by a prod run that is not a dry run
TagsOnlyInProd ==
    [][(call.op = "create_release" /\ ~NoTagCreated)
       => (call.args.stage = "prod" /\ ~call.args.dry_run)]_vars

\* the restore of repository n was entered: its reset was issued, or it was
\* completed
RestoreAttempted(n) ==
    \/ Issued(cmds', "git reset --hard", n) # {}
    \/ n \in DOMAIN release_results' /\ release_results'[n] = "rolled_back"

\* C18: a create_release that returns False with neither dry_run nor force
\* has entered the restore of every repository it holds a backup of; one that
\* returns True, or runs with dry_run or force, restores no repository.
C18_RollbackOnFailure ==
    [][call.op = "create_release"
       => /\ (ret' = Returned(FALSE) /\ ~call.args.dry_run /\ ~call.args.force)
              => \A n \in DOMAIN backups' : RestoreAttempted(n)
          /\ (ret' = Returned(TRUE) \/ call.args.dry_run \/ call.args.force)
              => \A n \in ConfiguredNames(repositories) : ~RestoreAttempted(n)]_vars

\* a failed release of the chain that changed c before b failed and then
\* rolled all three repositories back
C18_Witness ==
    /\ call.op = "create_release"
    /\ ~call.args.dry_run /\ ~call.args.force
    /\ repositories = Chain
    /\ ret = Returned(FALSE)
    /\ DOMAIN backups = Range(RepoNames)
    /\ Issued(cmds, "git commit", RepoC) # {}
    /\ \A n \in Range(RepoNames) :
           /\ Issued(cmds, "git reset --hard", n) # {}
           /\ release_results[n] = "rolled_back"

\* a forced release that failed in b and restored nothing
ForcedKeepsChanges ==
    /\ call.op = "create_release"
    /\ call.args.force /\ ~call.args.dry_run
    /\ backups # <<>>
    /\ RepoB \in DOMAIN release_results
    /\ release_results[RepoB] = "failed"
    /\ \A n \in Range(RepoNames) : Issued(cmds, "git reset --hard", n) = {}

\* the operation ran _create_backups and then _rollback_release
BackedUpAndRolledBack ==
    \/ /\ call.op \in {"_create_backups, _rollback_release",
                       "_create_backups, _tag_release, _rollback_release"}
       /\ ret' = Returned(None)
    \/ /\ call.op = "create_release"
       /\ ~call.args.dry_run /\ ~call.args.force
       /\ ret' = Returned(FALSE)

\* the restore of repository n ran to its end
Restored(n) ==
    /\ n \in DOMAIN backups'
    /\ n \in DOMAIN release_results'
    /\ release_results'[n] = "rolled_back"

\* C19: _create_backups followed by _rollback_release, at once or after any
\* release steps, leaves every restored repository with the manifest it had
\* when the backup was taken and with HEAD at the commit it was at, also when
\* the manifest had uncommitted modifications at that time.
C19_RestoreRoundTrip ==
    [][BackedUpAndRolledBack
       => \A n \in ConfiguredNames(repositories) :
              Restored(n) => (pyproject'[n] = pyproject[n]
                              /\ git'[n].head = git[n].head)]_vars

\* the round trip does hold for every repository whose manifest was
\* committed when the backup was taken, and HEAD returns in every case
CleanRestoreRoundTrip ==
    [][BackedUpAndRolledBack
       => \A n \in ConfiguredNames(repositories) :
              Restored(n)
              => /\ git'[n].head = git[n].head
                 /\ pyproject[n] = head_manifest(git[n]) => pyproject'[n] = pyproject[n]]_vars

\* an edited manifest comes back from the round trip as HEAD has it
EditedManifestLost ==
    [][(call.op = "_create_backups, _rollback_release")
       => \A n \in ConfiguredNames(repositories) :
              (Restored(n) /\ git[n].head # 0)
                  => pyproject'[n] = head_manifest(git[n])]_vars

\* the statuses recorded for repository n, in the order they were recorded
Assigned(log, n) ==
    LET of(e) == e.name = n
    IN  [i \in 1..Len(SelectSeq(log, of)) |-> SelectSeq(log, of)[i].status]

\* the histories the status machine allows: nothing recorded (pending), one
\* outcome, or one outcome and then the rollback
Outcomes == {<<"success">>, <<"failed">>}
AllowedHistories == {<<>>} \cup Outcomes \cup {o \o <<"rolled_back">> : o \in Outcomes}

\* C20: in a create_release run every repository's recorded status moves only
\* from nothing recorded to SUCCESS or FAILED and from there, optionally, to
\* ROLLED_BACK; a repository is marked ROLLED_BACK only in a run that returned
\* False, only if it has a backup, and only after SUCCESS or FAILED was
\* recorded for it in that run.
C20_StatusMachine ==
    [][call.op = "create_release"
       => \A n \in ConfiguredNames(repositories) :
              /\ Assigned(results_log', n) \in AllowedHistories
              /\ "rolled_back" \in Range(Assigned(results_log', n))
                     => (ret' = Returned(FALSE) /\ n \in DOMAIN backups')]_vars

\* what does hold: a status is recorded at most once before the rollback,
\* nothing is recorded after ROLLED_BACK, and ROLLED_BACK is recorded only in
\* a run that returned False and only for a repository with a backup - but
\* also for one that has no outcome recorded
StatusMovesForward ==
    [][call.op = "create_release"
       => \A n \in ConfiguredNames(repositories) :
              /\ Assigned(results_log', n) \in AllowedHistories \cup {<<"rolled_back">>}
              /\ "rolled_back" \in Range(Assigned(results_log', n))
                     => (ret' = Returned(FALSE) /\ n \in DOMAIN backups')]_vars

\* the j-th recorded status is the outcome of a release step
IsOutcome(log, j) == log[j].status \in {"success", "failed"}

\* the outcome recorded at j comes after an outcome of every target the
\* repository depends on
AfterItsDependencies(log, j) ==
    \A m \in Range(Targets) :
        DependsOn(repositories, log[j].name, m)
        => \E i \in 1..(j - 1) : log[i].name = m /\ IsOutcome(log, i)

\* C21: in every create_release run, sequential or parallel, the release step
\* of a target repository comes after the release step of every target
\* repository it depends on: the repositories are processed in the
\* topological order filtered to the target set, whatever order the target
\* names were given in.
C21_DependencyOrder ==
    [][WellTargeted
       => \A j \in DOMAIN results_log' :
              IsOutcome(results_log', j) => AfterItsDependencies(results_log', j)]_vars

\* the same of the runs that process their repositories one after the other
SequentialDependencyOrder ==
    [][(WellTargeted /\ Sequential)
       => \A j \in DOMAIN results_log' :
              IsOutcome(results_log', j) => AfterItsDependencies(results_log', j)]_vars

\* a sequential release of b and c, named in that order, on the chain: c was
\* processed before b
NamedOutOfOrder ==
    /\ call.op = "create_release"
    /\ repositories = Chain
    /\ call.args.repositories = <<RepoB, RepoC>>
    /\ ~call.args.parallel /\ ~call.args.dry_run
    /\ Len(results_log) >= 2
    /\ results_log[1] = [name |-> RepoC, status |-> "success"]
    /\ results_log[2] = [name |-> RepoB, status |-> "success"]

\* a parallel dev release of the whole chain: after the pool released c, a
\* was released before b, which it depends on
ParallelOutOfOrder ==
    /\ call.op = "create_release"
    /\ repositories = Chain
    /\ call.args.parallel /\ call.args.stage = "dev"
    /\ Len(results_log) = 3
    /\ results_log[2] = [name |-> RepoA, status |-> "success"]
    /\ results_log[3] = [name |-> RepoB, status |-> "success"]

-----------------------------------------------------------------------------
(* create_release with the thread pool of _process_repositories_parallel      *)
(* taken worker by worker                                                     *)

\* ThreadPoolExecutor(max_workers=4)
MaxWorkers == 4

\* executor.submit(self._process_single_repository, repo, ...)
Future(repo) == [repo |-> repo, state |-> "pending"]

\* the futures in a state
InState(futures, state) == {i \in DOMAIN futures : futures[i].state = state}

\* a release of the chain, the diamond or three independent repositories, in
\* the calm environment or with `poetry version` failing in one repository,
\* for all repositories or for names given out of order, twice or five times
InitPool ==
    /\ \E repos \in {Independent, Chain, Diamond} :
           Workspace(repos, AllExist, AllAt(V100), "str")
    /\ environment \in {Calm} \cup {[Calm EXCEPT !.version_fails = {n}] : n \in Range(RepoNames)}
    /\ \E stage \in {"dev", "rc"},
          names \in {<<>>, <<RepoB, RepoA>>, <<RepoC, RepoC>>,
                    <<RepoA, RepoB, RepoC, RepoA, RepoB>>},
          d \in BOOLEAN, p \in BOOLEAN :
           call = [op |-> "create_release",
                   args |-> ReleaseArgs(stage, names, None, NoVersions,
                                        d, FALSE, FALSE, p)]
    /\ ret = NoRet
    /\ executor = Idle

\* create_release when it does not take the parallel path
ReleaseInOneThread ==
    /\ executor.phase = "idle"
    /\ ~(WellTargeted /\ ~Sequential)
    /\ CreateRelease

\* create_release up to the submission of the independent repositories
\* (lines 73-132 and 301-327); no manifest is unreadable in InitPool, so the
\* backups are always taken
SubmitIndependent ==
    /\ executor.phase = "idle"
    /\ ret.kind = "none"
    /\ WellTargeted /\ ~Sequential
    /\ SetWorld(IF call.args.dry_run THEN World
                ELSE create_backups(World, environment, repositories, path_exists).w)
    /\ executor' =
           With(independent_repos(repositories, Targets), LAMBDA independent :
               [phase |-> IF independent # <<>> THEN "pool" ELSE "dependents",
                futures |-> [i \in DOMAIN independent |-> Future(independent[i])],
                success |-> TRUE,
                dependent_repos |-> dependent_repos_of(repositories, Targets),
                next |-> 1,
                running |-> FALSE])
    /\ UNCHANGED <<repositories, path_exists, environment, call, ret>>

\* a worker of the pool takes the oldest pending future
WorkerStart ==
    /\ executor.phase = "pool"
    /\ Cardinality(InState(executor.futures, "running")) < MaxWorkers
    /\ \E i \in InState(executor.futures, "pending") :
           /\ \A j \in 1..(i - 1) : executor.futures[j].state # "pending"
           /\ executor' = [executor EXCEPT !.futures[i].state = "running"]
    /\ UNCHANGED <<repositories, path_exists, world, environment, call, ret>>

\* a worker finishes _process_single_repository and as_completed hands the
\* future to the loop of lines 329-341
WorkerFinish ==
    /\ executor.phase = "pool"
    /\ \E i \in InState(executor.futures, "running") :
           \E r \in {process(World, environment, path_exists, call.args,
                            executor.futures[i].repo)} :
               /\ SetWorld(set_result(r.w, executor.futures[i].repo,
                                      IF r.ok THEN "success" ELSE "failed"))
               /\ executor' = [executor EXCEPT !.futures[i].state = "done",
                                               !.success = @ /\ r.ok]
    /\ UNCHANGED <<repositories, path_exists, environment, call, ret>>

\* the `with ThreadPoolExecutor` block is left when every future is done
PoolShutdown ==
    /\ executor.phase = "pool"
    /\ \A i \in DOMAIN executor.futures : executor.futures[i].state = "done"
    /\ executor' = [executor EXCEPT !.phase = "dependents"]
    /\ UNCHANGED <<repositories, path_exists, world, environment, call, ret>>

\* the loop of lines 345-361 calls _process_single_repository for the next
\* dependent repository
DependentStart ==
    /\ executor.phase = "dependents"
    /\ executor.success /\ ~executor.running
    /\ executor.next <= Len(executor.dependent_repos)
    /\ executor' = [executor EXCEPT !.running = TRUE]
    /\ UNCHANGED <<repositories, path_exists, world, environment, call, ret>>

\* the call returns and its result is recorded
DependentFinish ==
    /\ executor.phase = "dependents"
    /\ executor.running
    /\ \E r \in {process(World, environment, path_exists, call.args,
                         executor.dependent_repos[executor.next])} :
           /\ SetWorld(set_result(r.w, executor.dependent_repos[executor.next],
                                  IF r.ok THEN "success" ELSE "failed"))
           /\ executor' = [executor EXCEPT !.running = FALSE,
                                           !.success = r.ok,
                                           !.next = IF r.ok THEN @ + 1 ELSE @]
    /\ UNCHANGED <<repositories, path_exists, environment, call, ret>>

\* _process_repositories_parallel returns and create_release goes on from
\* line 145
ParallelReturn ==
    /\ executor.phase = "dependents"
    /\ ~executor.running
    /\ ~executor.success \/ executor.next > Len(executor.dependent_repos)
    /\ \E r \in {finish_release(World, environment, repositories, path_exists,
                                call.args, Targets, executor.success)} :
           SetWorld(r.w) /\ ret' = r.ret
    /\ executor' = [executor EXCEPT !.phase = "returned"]
    /\ UNCHANGED <<repositories, path_exists, environment, call>>

NextPool ==
    \/ ReleaseInOneThread
    \/ SubmitIndependent
    \/ WorkerStart
    \/ WorkerFinish
    \/ PoolShutdown
    \/ DependentStart
    \/ DependentFinish
    \/ ParallelReturn

SpecPool == InitPool /\ [][NextPool]_vars

\* the futures a worker of the pool is processing
Running == InState(executor.futures, "running")

\* what holds of the parallel path whatever names were given: it is taken only
\* for stage dev with parallel set, only repositories without declared
\* dependencies are handed to the pool, at most MaxWorkers of them are
\* processed at a time, none of them at the same time as one of its
\* dependencies, and the dependent repositories are processed only when every
\* future is done
ParallelDiscipline ==
    executor.phase \in {"pool", "dependents"}
    => /\ call.args.stage = "dev" /\ call.args.parallel
       /\ \A i \in DOMAIN executor.futures :
              get_repository(repositories, executor.futures[i].repo).dependencies = <<>>
       /\ Cardinality(Running) <= MaxWorkers
       /\ \A i \in Running, j \in Running :
              ~DependsOn(repositories, executor.futures[i].repo, executor.futures[j].repo)
       /\ executor.phase = "dependents"
              => \A i \in DOMAIN executor.futures : executor.futures[i].state = "done"

\* no two workers are processing the same repository
OneWorkerPerRepository ==
    executor.phase = "pool"
    => \A i \in Running, j \in Running :
           i # j => executor.futures[i].repo # executor.futures[j].repo

\* C22: parallel execution is used only for stage dev with parallel set, and
\* then only repositories with no declared dependencies run concurrently, in a
\* pool of at most 4 workers; dependency-bearing repositories start only after
\* every pool worker has finished and run one at a time, so at no moment do two
\* workers process the same repository, nor is a repository processed
\* concurrently with one of its dependencies.
C22_ParallelIsolation == ParallelDiscipline /\ OneWorkerPerRepository

\* when no target name is given twice, no two workers process the same
\* repository
DistinctTargetsIsolated ==
    NoDuplicates(Targets) => OneWorkerPerRepository

\* four workers are busy while a fifth future waits
PoolFull ==
    /\ executor.phase = "pool"
    /\ Cardinality(Running) = MaxWorkers
    /\ InState(executor.futures, "pending") # {}

\* two workers are processing c, which was named twice
TwoWorkersOneRepository ==
    /\ executor.phase = "pool"
    /\ call.args.repositories = <<RepoC, RepoC>>
    /\ Running = {1, 2}

\* how often the batch integration test was run
IntegrationRuns(log) == Cardinality(Issued(log, "_run_integration_tests", None))

NoIntegrationAfterFailure ==
    /\ call.op = "create_release"
    /\ ~call.args.skip_tests /\ ~call.args.dry_run /\ ~call.args.force
    /\ environment.tests[RepoC] = "fail"
    /\ Issued(cmds, "pytest", RepoC) # {}
    /\ IntegrationRuns(cmds) = 0
    /\ ret = Returned(FALSE)

-----------------------------------------------------------------------------
(* bump_version called again and again on one workspace                       *)

\* number of bump_version calls made on the enumerated ledgers
MaxCalls == 3

\* ledgers are filled up to this many entries short of the limit before the
\* enumerated calls are made
Headroom == 2

\* the chain at 1.0.0 with an empty ledger, in the calm environment or with
\* the tests of c failing; call.fill: the ledger is filled before the
\* enumerated calls are made
InitHistory ==
    /\ Workspace(Chain, AllExist, AllAt(V100), "str")
    /\ environment \in {Calm, [Calm EXCEPT !.tests[RepoC] = "fail"]}
    /\ \E fill \in BOOLEAN : call = [op |-> "bump_version", calls |-> 0, fill |-> fill]
    /\ ret = NoRet
    /\ executor = Idle

\* the ledger is still to be filled
Filling == call.fill /\ Len(version_history) < HistoryLimit - Headroom

\* bump_version(args) on the workspace as the calls before left it
BumpedAgain(args) ==
    \E r \in {bump_version([World EXCEPT !.cmds = <<>>], environment,
                            repositories, path_exists, args)} :
        SetWorld(r.w) /\ ret' = r.ret

\* a patch bump of c that fills the ledger
BumpVersionFill ==
    /\ call.op = "bump_version"
    /\ Filling
    /\ call' = [op |-> "bump_version", calls |-> call.calls, fill |-> TRUE,
                args |-> BumpArgs(RepoC, "patch", FALSE, FALSE, TRUE, "patch", FALSE)]
    /\ BumpedAgain(call'.args)
    /\ UNCHANGED <<repositories, path_exists, environment, executor>>

\* one more call of bump_version, of any enumerated kind
BumpVersionAgain ==
    /\ call.op = "bump_version"
    /\ ~Filling
    /\ call.calls < MaxCalls
    /\ \E n \in {RepoA, RepoC}, k \in {"patch", "minor"}, d \in BOOLEAN, v \in BOOLEAN :
           /\ call' = [op |-> "bump_version", calls |-> call.calls + 1,
                       fill |-> call.fill,
                       args |-> BumpArgs(n, k, FALSE, d, TRUE, "patch", v)]
           /\ BumpedAgain(call'.args)
    /\ UNCHANGED <<repositories, path_exists, environment, executor>>

NextHistory == BumpVersionFill \/ BumpVersionAgain

SpecHistory == InitHistory /\ [][NextHistory]_vars

\* the entries of old that new still holds are its last ones, in their order
\* and unaltered, followed in new by one more entry
AppendedTo(old, new) ==
    LET kept == Len(new) - 1
    IN  /\ kept = IF Len(old) < HistoryLimit THEN Len(old) ELSE HistoryLimit - 1
        /\ SubSeq(new, 1, kept) = SubSeq(old, Len(old) - kept + 1, Len(old))

\* C24: after any sequence of bump_version calls the ledger holds at most 100
\* entries, the most recent recorded bumps in the order they were recorded:
\* a call that records appends one entry, for its repository and its old and
\* new version, at the end, and entries leave only from the front and only
\* once the length would exceed 100; no entry is altered or reordered; a dry
\* run records nothing and a bump that returns True has recorded.
C24_LedgerBounded ==
    [][call'.op = "bump_version"
       => /\ Len(version_history') <= HistoryLimit
          /\ call'.args.dry_run => version_history' = version_history
          /\ (~call'.args.dry_run /\ ret' = Returned(TRUE))
                 => version_history' # version_history
          /\ version_history' # version_history
                 => /\ AppendedTo(version_history, version_history')
                    /\ LET entry == version_history'[Len(version_history')]
                       IN  /\ entry.repository = call'.args.repository
                           /\ entry.old_version = pyproject[entry.repository].version
                           /\ entry.new_version = pyproject'[entry.repository].version]_vars

\* the ledger is full, its oldest entries are gone, and the newest entry is
\* a minor bump of a made after the ledger was filled with patch bumps of c
C24_Witness ==
    /\ call.op = "bump_version" /\ call.fill /\ call.calls = MaxCalls
    /\ Len(version_history) = HistoryLimit
    /\ version_history[1].old_version # V100
    /\ version_history[HistoryLimit].repository = RepoA
    /\ version_history[HistoryLimit].bump_type = "minor"
    /\ version_history[HistoryLimit - 1].repository = RepoC

\* the repositories of a sequence of commands of one kind, in order
ReposOf(log, kind) ==
    LET of(c) == c.cmd = kind
    IN  [i \in 1..Len(SelectSeq(log, of)) |-> SelectSeq(log, of)[i].repo]

\* the repositories bump_version validates: the bumped one, then the
\* dependents the recorded entry lists as updated
Validated(entry) ==
    <<entry.repository>>
        \o [i \in 1..Len(entry.dependents_updated) |-> entry.dependents_updated[i].name]

\* the tests of repository n end in something other than a pass or "no tests
\* found"
TestsFail(n) == environment.tests[n] \notin {"pass", "none"}

\* the changes an entry records are in the manifests
Written(entry, files) ==
    /\ files[entry.repository].version = entry.new_version
    /\ entry.new_version # entry.old_version
    /\ \A i \in DOMAIN entry.dependents_updated :
           LET dependent == files[entry.dependents_updated[i].name]
               requirement ==
                   dependent.dependencies[
                       find_dependency(dependent.dependencies,
                           get_repository(repositories, entry.repository).package_name)]
           IN  /\ dependent.version = entry.dependents_updated[i].new_version
               /\ \/ requirement.version = <<"^">> \o entry.new_version
                  \/ requirement.kind = "dict" /\ requirement.path

\* C25: a bump_version with validate and without dry_run that has written its
\* changes runs the tests of the bumped repository and then of each updated
\* dependent, up to the first that ends in anything but a pass or "no tests
\* found" (a timeout included); if there is one it returns False, else True;
\* either way the versions written and the history entry stay as they are and
\* nothing is restored.
C25_ValidationFailureKeeps ==
    [][(/\ call.op = "bump_version"
        /\ call.args.validate /\ ~call.args.dry_run
        /\ version_history' # version_history)
       => LET entry == version_history'[Len(version_history')]
              names == Validated(entry)
              failing == {i \in DOMAIN names : TestsFail(names[i])}
              last == IF failing = {} THEN Len(names)
                      ELSE CHOOSE i \in failing : \A j \in failing : i <= j
          IN  /\ ReposOf(cmds', "pytest") = SubSeq(names, 1, last)
              /\ ret' = Returned(failing = {})
              /\ Written(entry, pyproject')
              /\ Issued(cmds', "git reset --hard", entry.repository) = {}]_vars

\* bump_version c on the chain, validated, with the tests of b timing out:
\* c and b were bumped and recorded, both were tested, the call returned False
C25_Witness ==
    /\ call.op = "bump_version"
    /\ call.args.validate /\ ~call.args.dry_run /\ call.args.update_dependents
    /\ call.args.repository = RepoC
    /\ repositories = Chain
    /\ environment.tests[RepoB] = "timeout"
    /\ ret = Returned(FALSE)
    /\ Len(version_history) = 1
    /\ ReposOf(cmds, "pytest") = <<RepoC, RepoB>>
    /\ pyproject[RepoC].version # V100
    /\ pyproject[RepoB].version # V100

\* without validate no test is run
UnvalidatedRunsNoTests ==
    [][(call.op = "bump_version" /\ (~call.args.validate \/ call.args.dry_run))
       => ReposOf(cmds', "pytest") = <<>>]_vars

\* repository n is not what the cascade started from
IsDependent(n) ==
    IF call.op = "bump_version" THEN n # call.args.repository
    ELSE n \notin Range(call.released)

\* one step into alpha: alpha N+1 of an alpha version, else patch+1 alpha.1
AlphaStep(version) ==
    LET v == ParseVersion(version)
    IN  IF v.is_alpha THEN FormatAlpha(v.major, v.minor, v.patch, v.alpha + 1)
        ELSE FormatAlpha(v.major, v.minor, v.patch + 1, 1)

\* C26: in every cascade (the prod dependent pass and the dependents step of
\* bump_version) a dependent's own version is bumped if and only if a rewrite
\* of its requirements changed its manifest; a dependent whose requirement is
\* already at the target value, or is path-based, is not bumped.  In the prod
\* cascade every bumped dependent ends one step into alpha.
C26_BumpIffRewritten ==
    [][(\/ call.op = "_update_dependent_repositories"
        \/ call.op = "bump_version" /\ call.args.update_dependents /\ ~call.args.dry_run)
       => \A n \in ConfiguredNames(repositories) :
              IsDependent(n)
              => /\ pyproject'[n].version # pyproject[n].version
                     <=> pyproject'[n].dependencies # pyproject[n].dependencies
                 /\ (/\ call.op = "_update_dependent_repositories"
                     /\ pyproject'[n].version # pyproject[n].version)
                        => pyproject'[n].version = AlphaStep(pyproject[n].version)]_vars

\* what holds of the prod cascade: a dependent is bumped only if a requirement
\* of it was rewritten, and then one step into alpha when its version parses
ProdBumpsOnlyRewritten ==
    [][call.op = "_update_dependent_repositories"
       => \A n \in ConfiguredNames(repositories) :
              (IsDependent(n) /\ pyproject'[n].version # pyproject[n].version)
              => /\ pyproject'[n].dependencies # pyproject[n].dependencies
                 /\ Parseable(pyproject[n].version)
                        => pyproject'[n].version = AlphaStep(pyproject[n].version)]_vars

\* and a dependent whose requirement was rewritten is bumped when its version
\* can be read and `poetry version` works in it
ProdRewrittenIsBumped ==
    [][call.op = "_update_dependent_repositories"
       => \A n \in ConfiguredNames(repositories) :
              (/\ IsDependent(n)
               /\ pyproject'[n].dependencies # pyproject[n].dependencies
               /\ ~Falsy(pyproject[n].version)
               /\ n \notin environment.version_fails)
              => pyproject'[n].version # pyproject[n].version]_vars

\* bump_version of c on the chain with path-based requirements: b's manifest
\* keeps its requirement and b is bumped all the same
PathDependentBumped ==
    /\ call.op = "bump_version"
    /\ call.args.repository = RepoC /\ ~call.args.dry_run
    /\ repositories = Chain
    /\ pyproject[RepoB].dependencies = [k \in {RepoC} |-> RequirementIn("path")]
    /\ Len(version_history) = 1
    /\ Len(version_history[1].dependents_updated) = 1
    /\ version_history[1].dependents_updated[1].name = RepoB
    /\ version_history[1].dependents_updated[1].old_version = V100
    /\ pyproject[RepoB].version # V100
    /\ ret = Returned(TRUE)

\* the managed requirements that differ from the version their dependency
\* has: repository n, with a directory and a manifest, requires the
\* configured repository d, not by path, at a version other than d's own
Mismatches ==
    {m \in [repo : ConfiguredNames(repositories), dependency : ConfiguredNames(repositories)] :
        /\ path_exists[m.repo] /\ pyproject[m.repo].exists
        /\ m.dependency \in DOMAIN pyproject[m.repo].dependencies
        /\ LET required == pyproject[m.repo].dependencies[m.dependency]
               actual == version_map_get(World, repositories, path_exists, m.dependency)
           IN  /\ ~(required.kind = "dict" /\ required.path)
               /\ ~Falsy(required.version) /\ ~Falsy(actual)
               /\ LStrip(required.version, {"^", "~", "="}) # actual}

\* the requirement of m reads ^ and the dependency's version after the call
RewrittenTo(m) ==
    pyproject'[m.repo].dependencies[m.dependency].version
        = <<"^">> \o version_map_get(World, repositories, path_exists, m.dependency)

\* the call may rewrite: it is no dry run and is forced or confirmed
Authorised == ~call.args.dry_run /\ (call.args.force \/ call.args.confirm)

SyncRewritesAll ==
    [][(call.op = "sync_dependency_versions" /\ ~Cyclic(repositories))
       => /\ pyproject' # pyproject => Authorised
          /\ Mismatches = {} => (ret' = Returned(TRUE) /\ pyproject' = pyproject)
          /\ (Mismatches # {} /\ ~Authorised /\ ~call.args.dry_run)
                 => (ret' = Returned(FALSE) /\ pyproject' = pyproject)
          /\ (Mismatches # {} /\ call.args.dry_run) => ret' = Returned(TRUE)
          /\ (Mismatches # {} /\ Authorised)
                 => /\ \A m \in Mismatches : RewrittenTo(m)
                    /\ ret' = Returned(\A m \in Mismatches :
                                           environment.lock[m.repo] # "timeout")]_vars

\* a forced sync on the chain with c at 1.2.0 in which `poetry lock` timed out
\* in b: b's requirement reads ^1.2.0 and the call returned False
SyncTimedOut ==
    /\ call.op = "sync_dependency_versions"
    /\ call.args.force /\ ~call.args.dry_run
    /\ repositories = Chain
    /\ environment.lock[RepoB] = "timeout"
    /\ pyproject[RepoC].version = V120
    /\ RepoC \in DOMAIN pyproject[RepoB].dependencies
    /\ pyproject[RepoB].dependencies[RepoC].version = <<"^">> \o V120
    /\ ret = Returned(FALSE)

\* bump_version gives up before its first write: the name is not configured,
\* the directory is missing, the version is missing or cannot be parsed, or
\* `poetry version` is run for the target and fails
GivesUpEarly ==
    LET n == call.args.repository
    IN  \/ ~HasRepository(repositories, n)
        \/ ~path_exists[n]
        \/ ~pyproject[n].exists
        \/ Falsy(pyproject[n].version)
        \/ ~ParseVersion(pyproject[n].version).matched
        \/ ~call.args.dry_run /\ n \in environment.version_fails

\* the commands the step issued
IssuedInStep == {cmds'[i].cmd : i \in (Len(cmds) + 1)..Len(cmds')}

\* C28: bump_version returns False and leaves every manifest, every lock file
\* and the history ledger as they were when the repository name is not
\* configured, its path does not exist, its current version is missing or
\* cannot be parsed, or `poetry version` fails for the target repository.
C28_FailureLeavesUnchanged ==
    [][(call.op = "bump_version" /\ GivesUpEarly)
       => /\ ret' = Returned(FALSE)
          /\ pyproject' = pyproject
          /\ version_history' = version_history
          /\ IssuedInStep \subseteq {"poetry version"}]_vars

\* a bump for real of a configured repository with a directory and a
\* parseable version in which `poetry version` was issued and failed
C28_Witness ==
    /\ call.op = "bump_version"
    /\ ~call.args.dry_run
    /\ call.args.repository \in environment.version_fails
    /\ Issued(cmds, "poetry version", call.args.repository) # {}
    /\ pyproject[call.args.repository].version = V100
    /\ ret = Returned(FALSE)

\* the dependent n was bumped by the step
BumpedInStep(n) ==
    /\ n \notin Range(call.released)
    /\ pyproject[n].exists
    /\ pyproject'[n].version # pyproject[n].version

\* y is a dependent that follows x: it is outside the release, has a
\* directory, declares x in the configuration, and its manifest holds a
\* requirement on x's package that is not a bare path
FollowsOn(y, x) ==
    /\ y \notin Range(call.released)
    /\ path_exists[y] /\ pyproject[y].exists
    /\ x \in Range(get_repository(repositories, y).dependencies)
    /\ LET key == find_dependency(pyproject[y].dependencies,
                                  get_repository(repositories, x).package_name)
       IN  /\ key # None
           /\ ~(pyproject[y].dependencies[key].version = None
                /\ pyproject[y].dependencies[key].path)

\* y's requirement on x after the step
RequirementOn(y, x) ==
    pyproject'[y].dependencies[
        find_dependency(pyproject[y].dependencies,
                        get_repository(repositories, x).package_name)].version

\* the positions at which the step ran `poetry version` in n
VersionSetAt(n) == {i \in (Len(cmds) + 1)..Len(cmds') :
                       cmds'[i].cmd = "poetry version" /\ cmds'[i].repo = n}

\* C29: the prod dependent cascade visits the dependents in dependency order,
\* and when a dependent x was bumped in the cascade, every dependent y that
\* directly depends on x has its requirement on x rewritten to ^ and x's newly
\* assigned version, not the version x had before, and is then bumped itself
\* (its version being readable and `poetry version` working in it).
C29_CascadePropagates ==
    [][call.op = "_update_dependent_repositories"
       => \A x \in ConfiguredNames(repositories), y \in ConfiguredNames(repositories) :
              /\ (x \in Range(get_repository(repositories, y).dependencies)
                     => \A i \in VersionSetAt(x), j \in VersionSetAt(y) : i < j)
              /\ (BumpedInStep(x) /\ FollowsOn(y, x))
                     => /\ RequirementOn(y, x) = <<"^">> \o pyproject'[x].version
                        /\ RequirementOn(y, x) # <<"^">> \o pyproject[x].version
                        /\ (~Falsy(pyproject[y].version)
                            /\ y \notin environment.version_fails)
                               => /\ BumpedInStep(y)
                                  /\ VersionSetAt(y) # {}]_vars

\* the chain after c was released as 1.2.0: b went to 1.0.1-alpha.1, a's
\* requirement on b reads ^1.0.1-alpha.1 and a went to 1.0.1-alpha.1 too
C29_Witness ==
    /\ call.op = "_update_dependent_repositories"
    /\ call.released = <<RepoC>>
    /\ repositories = Chain
    /\ ret = Returned(TRUE)
    /\ pyproject[RepoB].version = FormatAlpha(1, 0, 1, 1)
    /\ pyproject[RepoA].dependencies[RepoB].version = <<"^">> \o FormatAlpha(1, 0, 1, 1)
    /\ pyproject[RepoA].version = FormatAlpha(1, 0, 1, 1)
    /\ Issued(cmds, "poetry version", RepoB) # {}
    /\ \A i \in Issued(cmds, "poetry version", RepoB),
          j \in Issued(cmds, "poetry version", RepoA) : i < j

\* the positions at which the step issued a command of a kind in n
IssuedAt(kind, n) == {i \in (Len(cmds) + 1)..Len(cmds') :
                         cmds'[i].cmd = kind /\ cmds'[i].repo = n}

\* the positions at which the step entered _update_lock_file for n: its
\* `poetry lock` follows the `poetry version` of the same repository, while
\* the `poetry lock` of a rollback follows a `git reset --hard`
FastLockAt(n) == {i \in IssuedAt("poetry lock", n) :
                     i > 1 /\ cmds'[i - 1] \in {c \in {cmds'[i - 1]} :
                                  c.cmd = "poetry version" /\ c.repo = n}}

\* neither attempt to lock n succeeds
LockFails(n) == environment.lock[n] # "ok" /\ environment.regenerate[n] # "ok"

\* the command the step issued at position i, None past the last one
CommandAt(i) == IF i \in DOMAIN cmds' THEN [cmd |-> cmds'[i].cmd, repo |-> cmds'[i].repo]
                ELSE None

\* C30: _update_lock_file makes at most two attempts, `poetry lock` first and
\* `poetry lock --regenerate` only if the first exited nonzero or timed out;
\* it succeeds, and the release of the repository goes on to its tests or its
\* commit, if and only if one of the two attempts succeeded; a regeneration
\* that fails or times out makes the repository's release step fail.
C30_LockAttempts ==
    [][call.op = "create_release"
       => \A n \in ConfiguredNames(repositories) :
              /\ Cardinality(FastLockAt(n)) <= 1
              /\ \A i \in FastLockAt(n) :
                     LET regenerated ==
                             CommandAt(i + 1) = [cmd |-> "poetry lock --regenerate", repo |-> n]
                         after == CommandAt(IF regenerated THEN i + 2 ELSE i + 1)
                     IN  /\ regenerated <=> environment.lock[n] # "ok"
                         /\ IF LockFails(n)
                            THEN /\ after \notin {[cmd |-> c, repo |-> n] :
                                         c \in {"poetry lock", "poetry lock --regenerate"}}
                                 /\ IssuedAt("pytest", n) = {}
                                 /\ IssuedAt("git commit", n) = {}
                                 /\ \A k \in (Len(results_log) + 1)..Len(results_log') :
                                        results_log'[k] # [name |-> n, status |-> "success"]
                                 /\ ~call.args.force => ret' = Returned(FALSE)
                            ELSE after = [cmd |-> IF call.args.skip_tests THEN "git commit"
                                                  ELSE "pytest",
                                          repo |-> n]]_vars

\* a release in which `poetry lock` timed out in c and the regeneration
\* failed: both were issued, no test ran in c and the release returned False
C30_Witness ==
    /\ call.op = "create_release"
    /\ ~call.args.force
    /\ environment.lock[RepoC] = "timeout"
    /\ environment.regenerate[RepoC] = "fail"
    /\ Issued(cmds, "poetry lock", RepoC) # {}
    /\ Issued(cmds, "poetry lock --regenerate", RepoC) # {}
    /\ Issued(cmds, "pytest", RepoC) = {}
    /\ ret = Returned(FALSE)

\* a release in which `poetry lock` failed in c and the regeneration worked:
\* the tests of c ran after it
LockRegenerated ==
    /\ call.op = "create_release"
    /\ environment.lock[RepoC] = "fail"
    /\ environment.regenerate[RepoC] = "ok"
    /\ Issued(cmds, "poetry lock --regenerate", RepoC) # {}
    /\ Issued(cmds, "pytest", RepoC) # {}

\* the positions at which the step made the release commit of n: a commit in
\* a repository of the release, the dependent pass committing in the others
ReleaseCommitAt(n) ==
    IF call.args.repositories = <<>> \/ n \in Range(call.args.repositories)
    THEN IssuedAt("git commit", n)
    ELSE {}

\* the tests of n are run and do not pass
TestsStop(n) == ~call.args.skip_tests /\ environment.tests[n] # "pass"

\* C31: within one repository's release step the operations occur in the
\* order set version, regenerate lock, run tests (unless skipped), commit; the
\* commit is made only if every earlier operation succeeded, so a lock that
\* fails in both forms, a test failure or a test timeout ends the step as
\* failed with no release commit for that repository.
C31_StepOrder ==
    [][call.op = "create_release"
       => \A n \in ConfiguredNames(repositories) :
              /\ \A k \in ReleaseCommitAt(n) :
                     LET locked == IF call.args.skip_tests THEN k - 1 ELSE k - 2
                         fast == IF CommandAt(locked)
                                        = [cmd |-> "poetry lock --regenerate", repo |-> n]
                                 THEN locked - 1 ELSE locked
                     IN  /\ ~call.args.skip_tests
                                => CommandAt(k - 1) = [cmd |-> "pytest", repo |-> n]
                         /\ fast \in FastLockAt(n)
                         /\ CommandAt(fast - 1) = [cmd |-> "poetry version", repo |-> n]
                         /\ n \notin environment.version_fails
                         /\ ~LockFails(n)
                         /\ ~TestsStop(n)
              /\ (FastLockAt(n) # {} /\ (LockFails(n) \/ TestsStop(n)))
                     => /\ ReleaseCommitAt(n) = {}
                        /\ \A k \in (Len(results_log) + 1)..Len(results_log') :
                               results_log'[k] # [name |-> n, status |-> "success"]
                        /\ ~call.args.force => ret' = Returned(FALSE)
              /\ (FastLockAt(n) # {} /\ ~LockFails(n) /\ ~TestsStop(n))
                     => ReleaseCommitAt(n) # {}]_vars

\* a release in which the tests of c timed out: the version was set and the
\* lock regenerated, the tests ran, and no commit was made in c
C31_Witness ==
    /\ call.op = "create_release"
    /\ environment.tests[RepoC] = "timeout"
    /\ Issued(cmds, "poetry version", RepoC) # {}
    /\ Issued(cmds, "pytest", RepoC) # {}
    /\ Issued(cmds, "git commit", RepoC) = {}
    /\ ret = Returned(FALSE)

\* a release in which c went through all four operations
StepCompleted ==
    /\ call.op = "create_release"
    /\ Len(cmds) >= 4
    /\ [i \in 1..4 |-> cmds[i].cmd] = <<"poetry version", "poetry lock", "pytest", "git commit">>
    /\ \A i \in 1..4 : cmds[i].repo = RepoC
    /\ results_log # <<>> /\ results_log[1] = [name |-> RepoC, status |-> "success"]

\* the restore of n raises: its `git reset --hard` fails, or its lock cannot
\* be refreshed in either form
RestoreFails(n) ==
    \/ n \in environment.reset_fails
    \/ environment.lock[n] # "ok" /\ environment.regenerate[n] # "ok"

\* the restore of n was entered: its reset was issued or, the backup holding
\* no commit, its lock refresh was
RestoreEntered(n) ==
    IF backups'[n].git_commit # 0 THEN IssuedAt("git reset --hard", n) # {}
    ELSE IssuedAt("poetry lock", n) # {}

RollbackLockFailed ==
    /\ call.op = "_create_backups, _rollback_release"
    /\ environment.lock[RepoA] = "timeout"
    /\ environment.regenerate[RepoA] = "fail"
    /\ Issued(cmds, "poetry lock --regenerate", RepoA) # {}
    /\ DOMAIN release_results = {RepoB, RepoC}

\* the backup entry of n holds the manifest and the commit n had before the step
CapturedBefore(n) ==
    /\ n \in DOMAIN backups'
    /\ backups'[n] = [pyproject_toml |-> pyproject[n], git_commit |-> git[n].head]

\* the step changed a manifest or a repository, or issued a command
Mutating == pyproject' # pyproject \/ git' # git \/ cmds' # cmds

\* the manifest of n cannot be copied
Unreadable(n) == pyproject[n].exists /\ n \in environment.copy_fails

\* C33: _create_backups runs before any mutating step of a release that is no
\* dry run, and records an entry, holding the manifest and the revision as
\* they were, for every configured repository whose path exists, in the
\* release or not; a failure to read one repository's manifest or revision
\* does not stop the remaining repositories from being backed up.
C33_BackupsFirst ==
    [][/\ (call.op = "create_release" /\ ~call.args.dry_run /\ Mutating)
              => backup_dirs' = backup_dirs + 1
       /\ backup_dirs' # backup_dirs
              => \A n \in ConfiguredNames(repositories) :
                     /\ n \in DOMAIN backups' => path_exists[n]
                     /\ (path_exists[n] /\ ~Unreadable(n)) => CapturedBefore(n)]_vars

\* what holds: the same while every manifest can be copied, a repository
\* whose revision cannot be read included; an unreadable manifest ends the
\* operation with the error of the copy
BackupsWhenReadable ==
    [][/\ (call.op = "create_release" /\ ~call.args.dry_run /\ Mutating)
              => backup_dirs' = backup_dirs + 1
       /\ backup_dirs' # backup_dirs
              => IF \E n \in ConfiguredNames(repositories) : path_exists[n] /\ Unreadable(n)
                 THEN ret' = Raised("OSError") /\ ~Mutating
                 ELSE \A n \in ConfiguredNames(repositories) :
                          /\ n \in DOMAIN backups' => path_exists[n]
                          /\ path_exists[n] => CapturedBefore(n)]_vars

\* the backup of the chain ended at the unreadable manifest of a: the
\* operation raised and neither b nor c has an entry
BackupCutShort ==
    /\ environment.copy_fails = {RepoA}
    /\ repositories = Chain
    /\ backup_dirs = 1
    /\ ret = Raised("OSError")
    /\ backups = <<>>

\* b is no git repository: its entry holds no commit, and a and c have theirs
BackupWithoutRevision ==
    /\ call.op = "_create_backups, _rollback_release"
    /\ git[RepoB] = NoGit
    /\ DOMAIN backups = Range(RepoNames)
    /\ backups[RepoB].git_commit = 0
    /\ backups[RepoA].git_commit = 1 /\ backups[RepoC].git_commit = 1

\* a release of c alone backed up a and b too
BackupBeyondTargets ==
    /\ call.op = "create_release"
    /\ call.args.repositories = <<RepoC>>
    /\ DOMAIN backups = Range(RepoNames)

\* the tags the step created in n: `git tag -a` was issued and did not fail
CreatedTags(n) ==
    IF n \in environment.tag_fails THEN {}
    ELSE {cmds'[i].arg : i \in IssuedAt("git tag", n)}

StepFails(n) == ~process(World, environment, path_exists, call.args, n).ok

\* the queue of the run: the release order, or the repositories handed to the
\* pool followed by the dependent repositories
Queue ==
    IF Sequential THEN ReleaseOrder
    ELSE independent_repos(repositories, Targets)
             \o dependent_repos_of(repositories, Targets)

\* the k-th repository of the queue is taken up: the pool takes every
\* repository handed to it, a forced sequential run every repository, and
\* otherwise a repository is taken up when none before it has failed
TakenUp(k) ==
    \/ Sequential /\ call.args.force
    \/ ~Sequential /\ k <= Len(independent_repos(repositories, Targets))
    \/ \A j \in 1..(k - 1) : ~StepFails(Queue[j])

\* C35: every repository whose release step failed has FAILED recorded in the
\* release results of the run, in sequential mode with or without force and
\* in parallel mode, and the failure stops the remaining queue only when
\* force is false: a forced run records an outcome for every target.
C35_FailedRecorded ==
    [][WellTargeted
       => \A k \in DOMAIN Queue :
              (TakenUp(k) /\ StepFails(Queue[k]))
              => /\ "failed" \in Range(Assigned(results_log', Queue[k]))
                 /\ call.args.force
                        => \A j \in DOMAIN Queue :
                               Assigned(results_log', Queue[j]) # <<>>]_vars

\* what holds: FAILED is recorded by a forced sequential run, which goes on to
\* every target, and by a parallel run; a sequential run without force
\* records nothing for the repository that failed and returns False
FailedRecordedWhere ==
    [][WellTargeted
       => \A k \in DOMAIN Queue :
              (TakenUp(k) /\ StepFails(Queue[k]))
              => IF Sequential /\ ~call.args.force
                 THEN /\ "failed" \notin Range(Assigned(results_log', Queue[k]))
                      /\ ret' = Returned(FALSE)
                 ELSE /\ "failed" \in Range(Assigned(results_log', Queue[k]))
                      /\ Sequential
                             => \A j \in DOMAIN Queue :
                                    Assigned(results_log', Queue[j]) # <<>>]_vars

\* an unforced sequential release of the chain in which `poetry version`
\* failed in b: c was recorded, b was never recorded as failed, and the
\* rollback marked all three
FailureUnrecorded ==
    /\ call.op = "create_release"
    /\ ~call.args.force /\ ~call.args.dry_run /\ ~call.args.parallel
    /\ repositories = Chain
    /\ call.args.repositories = <<>>
    /\ environment.version_fails = {RepoB}
    /\ Issued(cmds, "poetry version", RepoB) # {}
    /\ Assigned(results_log, RepoC) = <<"success", "rolled_back">>
    /\ Assigned(results_log, RepoB) = <<"rolled_back">>
    /\ ret = Returned(FALSE)

\* a forced parallel release of the chain in which `poetry version` failed in
\* b: b was recorded as failed and a, behind it in the queue, was not taken up
ForcedParallelStops ==
    /\ call.op = "create_release"
    /\ call.args.force /\ call.args.parallel /\ call.args.stage = "dev"
    /\ repositories = Chain
    /\ call.args.repositories = <<RepoB, RepoA>>
    /\ environment.version_fails = {RepoB}
    /\ Assigned(results_log, RepoB) = <<"failed">>
    /\ Assigned(results_log, RepoA) = <<>>
    /\ Issued(cmds, "poetry version", RepoA) = {}

\* a create_release that is no dry run, runs without force and has created
\* backups
UnforcedWithBackups ==
    /\ call.op = "create_release"
    /\ ~call.args.dry_run /\ ~call.args.force
    /\ backups' # <<>>

EndingsOfUnforced ==
    [][UnforcedWithBackups
       => /\ \/ ret' = Returned(TRUE)
             \/ /\ ret' = Returned(FALSE)
                /\ \A n \in DOMAIN backups' : RestoreAttempted(n)
             \/ /\ ret'.kind \in {"CalledProcessError", "FileNotFoundError",
                                  "OSError", "ValueError"}
                /\ \A n \in ConfiguredNames(repositories) : ~RestoreAttempted(n)
          /\ ret' = Raised("CalledProcessError")
                 <=> \E n \in Range(Targets) :
                         /\ IssuedAt("git tag", n) # {}
                         /\ \/ n \in environment.tag_fails
                            \/ /\ n \in environment.push_fails
                               /\ IssuedAt("git push origin", n) # {}]_vars

\* a prod release of the chain in which `git tag` failed for b after a was
\* tagged and pushed (the tags follow the configuration order): the call
\* raised, nothing was restored, and a keeps its release commit and its tag
TagFailureEscapes ==
    /\ call.op = "create_release"
    /\ ~call.args.dry_run /\ ~call.args.force
    /\ call.args.stage = "prod"
    /\ repositories = Chain
    /\ environment.tag_fails = {RepoB}
    /\ ret = Raised("CalledProcessError")
    /\ DOMAIN backups = Range(RepoNames)
    /\ Issued(cmds, "git push origin", RepoA) # {}
    /\ Issued(cmds, "git tag", RepoB) # {}
    /\ Issued(cmds, "git tag", RepoC) = {}
    /\ \A n \in Range(RepoNames) : Issued(cmds, "git reset --hard", n) = {}
    /\ git[RepoA].head # backups[RepoA].git_commit
    /\ git[RepoA].tags # {}

\* the tags of repository n that the step deleted
DeletedTags(n) == git[n].tags \ git'[n].tags

\* C37: _rollback_release never deletes a tag that was in a repository before
\* the release run started: the tags removed by _cleanup_orphaned_tags are
\* tags created during the failed run.
C37_OldTagsKept ==
    [][BackedUpAndRolledBack
       => \A n \in DOMAIN git : DeletedTags(n) = {}]_vars

\* what holds: a tag is deleted only after the reset of its repository, only
\* when its commit is no ancestor of the restored HEAD, and every tag whose
\* commit is an ancestor of the restored HEAD is kept
OldTagsOnBranchKept ==
    [][BackedUpAndRolledBack
       => \A n \in DOMAIN git :
              /\ \A t \in DeletedTags(n) :
                     /\ Issued(cmds', "git reset --hard", n) # {}
                     /\ n \notin environment.reset_fails
                     /\ ~IsAncestor(git'[n], t.commit, git'[n].head)
              /\ \A t \in git[n].tags :
                     IsAncestor(git'[n], t.commit, git'[n].head)
                     => t \in git'[n].tags]_vars

\* c had the tag v0.9.0 on a commit of another branch (commit 2, whose
\* manifest is that of commit 1); after the release of c was rolled back the
\* tag is gone although the run did not create it
OldTagDeleted ==
    /\ call.op = "_create_backups, _tag_release, _rollback_release"
    /\ call.repository = RepoC
    /\ Len(git[RepoC].commits) >= 2
    /\ git[RepoC].commits[2].parent = 1
    /\ git[RepoC].commits[2].manifest = git[RepoC].commits[1].manifest
    /\ git[RepoC].head = 1
    /\ RepoC \in DOMAIN release_results /\ release_results[RepoC] = "rolled_back"
    /\ TagsNamed(git[RepoC], TagOf(V090)) = {}

-----------------------------------------------------------------------------
(* sync_dependency_versions called again after a forced sync that succeeded *)

\* a first sync on the chain, the diamond and their packaged forms, in every
\* requirement style, with `poetry lock` working, failing or timing out
InitResync ==
    /\ \E repos \in {Chain, Diamond, Packaged(Chain), Packaged(Diamond)},
          exists \in {AllExist, [AllExist EXCEPT ![RepoB] = FALSE]},
          vc \in {V120, V100, None},
          vb \in {V100, V120},
          style \in RequirementStyles :
           Workspace(repos, exists,
                     [n \in Range(RepoNames) |->
                         IF n = RepoC THEN vc ELSE IF n = RepoB THEN vb ELSE V100],
                     style)
    /\ environment \in {Calm} \cup {[Calm EXCEPT !.lock[n] = o] :
                                      n \in Range(RepoNames), o \in {"fail", "timeout"}}
    /\ \E d \in BOOLEAN, f \in BOOLEAN, c \in BOOLEAN :
           call = [op |-> "sync_dependency_versions", args |-> SyncArgs(d, f, c)]
    /\ ret = NoRet
    /\ executor = Idle

\* the first sync was forced, was no dry run and returned True
ForcedSyncSucceeded ==
    /\ call.op = "sync_dependency_versions"
    /\ call.args.force /\ ~call.args.dry_run
    /\ ret = Returned(TRUE)

\* sync_dependency_versions called again, with any flags and answer
SyncDependencyVersionsAgain ==
    /\ ForcedSyncSucceeded
    /\ \E d \in BOOLEAN, f \in BOOLEAN, c \in BOOLEAN :
           /\ call' = [op |-> "sync_dependency_versions, repeated",
                       args |-> SyncArgs(d, f, c)]
           /\ \E r \in {sync_dependency_versions(World, environment, repositories,
                                                path_exists, call'.args)} :
                  SetWorld(r.w) /\ ret' = r.ret
    /\ UNCHANGED <<repositories, path_exists, environment, executor>>

NextResync == SyncDependencyVersions \/ SyncDependencyVersionsAgain

SpecResync == InitResync /\ [][NextResync]_vars

\* C39: sync_dependency_versions is idempotent: after a forced sync that was
\* no dry run and returned True, a sync repeated at once finds no requirement
\* to update, rewrites nothing, runs no command and returns True, also for
\* repositories whose package name differs from their repository name.
C39_SyncIdempotent ==
    [][(ForcedSyncSucceeded /\ call'.op = "sync_dependency_versions, repeated")
       => /\ Mismatches = {}
          /\ pyproject' = pyproject
          /\ cmds' = cmds
          /\ ret' = Returned(TRUE)]_vars

\* C39 witness: the first sync rewrote the requirements on c in the diamond to
\* ^1.2.0 although `poetry lock` failed in b; the repeated sync, neither
\* forced nor confirmed, returned True and left them so
C39_Witness ==
    /\ call.op = "sync_dependency_versions, repeated"
    /\ ~call.args.force /\ ~call.args.confirm /\ ~call.args.dry_run
    /\ repositories = Diamond
    /\ environment.lock[RepoB] = "fail"
    /\ pyproject[RepoC].version = V120
    /\ RepoC \in DOMAIN pyproject[RepoB].dependencies
    /\ pyproject[RepoB].dependencies[RepoC] = StrRequirement(<<"^">> \o V120)
    /\ Issued(cmds, "poetry lock", RepoB) # {}
    /\ ret = Returned(TRUE)

\* with package names p-a, p-b, p-c the manifests name no configured
\* repository: both syncs returned True and the requirement of p-b on p-c
\* still reads ^1.0.0 with p-c at 1.2.0
PackagedNeverSynced ==
    /\ call.op = "sync_dependency_versions, repeated"
    /\ repositories = Packaged(Chain)
    /\ pyproject[RepoC].version = V120
    /\ pyproject[RepoB].exists
    /\ \E k \in DOMAIN pyproject[RepoB].dependencies :
           pyproject[RepoB].dependencies[k] = StrRequirement(Caret100)
    /\ cmds = <<>>
    /\ ret = Returned(TRUE)

-----------------------------------------------------------------------------
(* get_dependency_order on every enumerated configuration *)

InitOrder ==
    /\ repositories \in WideConfigs
    /\ InitWorld
    /\ call = [op |-> "get_dependency_order"]
    /\ ret = NoRet
    /\ executor = Idle

GetDependencyOrder ==
    /\ call.op = "get_dependency_order"
    /\ ret.kind = "none"
    /\ LET r == get_dependency_order(repositories)
       IN  ret' = IF r.raised
                  THEN [kind |-> "ValueError", involving |-> r.involving,
                        temp_visited |-> r.temp_visited, result |-> r.result]
                  ELSE [kind |-> "return", result |-> r.result]
    /\ UNCHANGED <<repositories, path_exists, world, environment, call, executor>>

NextOrder == GetDependencyOrder

SpecOrder == InitOrder /\ [][NextOrder]_vars

\* position of name in a list of names, 0 when absent
Positions(order, name) == {i \in 1..Len(order) : order[i] = name}

\* C1: for every acyclic configuration get_dependency_order returns a list
\* that contains every configured repository exactly once and in which every
\* declared dependency of a repository stands earlier than the repository.
C1_DependenciesFirst ==
    (ret.kind # "none" /\ ~Cyclic(repositories)) =>
        /\ ret.kind = "return"
        /\ \A n \in ConfiguredNames(repositories) :
               /\ Cardinality(Positions(ret.result, n)) = 1
               /\ \A d \in Range(get_repository(repositories, n).dependencies) :
                      \E i \in Positions(ret.result, d) :
                          \A j \in Positions(ret.result, n) : i < j

\* C1 witness: the chain a -> b -> c, configured dependents first, comes out
\* as c, b, a.
C1_Witness ==
    /\ repositories[1].dependencies = <<RepoB>>
    /\ repositories[2].dependencies = <<RepoC>>
    /\ repositories[3].dependencies = <<>>
    /\ ret.kind = "return"
    /\ ret.result = <<RepoC, RepoB, RepoA>>

\* C2: for every configuration whose declared dependencies contain a cycle
\* get_dependency_order returns no order: it raises the circular-dependency
\* error, the node it names lies on a cycle, and it is raised when the
\* traversal re-enters a node still marked in progress.
C2_CycleRaises ==
    (ret.kind # "none" /\ Cyclic(repositories)) =>
        /\ ret.kind = "ValueError"
        /\ OnCycle(repositories, ret.involving)
        /\ ret.involving \in ret.temp_visited

\* C2 witness: a -> b -> c -> b raises naming b, which is on the cycle, while
\* a is in progress too but on no cycle.
C2_Witness ==
    /\ ret.kind = "ValueError"
    /\ ret.involving = RepoB
    /\ RepoA \in ret.temp_visited
    /\ ~OnCycle(repositories, RepoA)

=============================================================================
